---- MODULE Spec2Model ----
(***************************************************************************)
(* Model of the DDS <-> JSON structural codec of profound-utils:           *)
(*   chunkData            (shared/asyncUtils)                              *)
(*   htmlObjToDdsLines, conversionV1   (jsonToDds.js)                      *)
(*   getFormatsFromSrc, getKeywordsFromSrc, getDdsFromSrc, main (ddsToJson)*)
(*                                                                         *)
(* A JavaScript string is a sequence of one-character strings; positions   *)
(* in the operators below are the 0-based positions of the source.         *)
(***************************************************************************)
EXTENDS Integers, Sequences, FiniteSets, TLC

VARIABLES
  pc,             \* what the run has done so far
  chunkInput,     \* chunkData: the argument data, as passed
  nBytes,         \* chunkData: the argument bytes
  remaining,      \* chunkData: data, the part not yet chunked
  pushed,         \* chunkData: chunks, the chunks pushed so far
  payload,        \* htmlObjToDdsLines: the payload
  lineTag,        \* htmlObjToDdsLines: the display-line-number tag
  rtnLines,       \* htmlObjToDdsLines: the lines returned
  document,       \* the document (origSrcLines of conversionV1)
  scanned,        \* what getFormatsFromSrc returned: [ok, formats]
  newModel,       \* conversionV1: the new model, [formats]
  mergeResult,    \* what conversionV1 returned: [ok, lines]
  echoResult,     \* what getDdsFromSrc returned: [ok, lines]
  source,         \* main: the lines of the file, as read and split
  keywords,       \* what getKeywordsFromSrc returned: [ok, keywords]
  srcLine,        \* a single line under a structural test
  answers,        \* the answers of the structural tests on srcLine
  calls,          \* the getFormatsFromSrc calls in progress, by caller
  boundResult,    \* what getBoundFields returned: [ok, fields]
  isDdsFile,      \* the module-level flag isDdsFile of each converter
  outFileName,    \* the module-level outFileName of ddsToJson
  conversions     \* the convert() calls made so far, by caller

vars ==
  <<pc, chunkInput, nBytes, remaining, pushed, payload, lineTag, rtnLines,
    document, scanned, newModel, mergeResult, echoResult,
    source, keywords, srcLine, answers, calls, boundResult,
    isDdsFile, outFileName, conversions>>

chunkVars == <<chunkInput, nBytes, remaining, pushed>>

renderVars == <<payload, lineTag, rtnLines>>

docVars == <<document, scanned, newModel, mergeResult, echoResult>>

procVars == <<isDdsFile, outFileName, conversions>>

auxVars ==
  <<source, keywords, srcLine, answers, calls, boundResult,
    isDdsFile, outFileName, conversions>>

(***************************************************************************)
(* JavaScript string primitives.                                           *)
(***************************************************************************)
Min(a, b) == IF a < b THEN a ELSE b

Max(a, b) == IF a > b THEN a ELSE b

SetMin(S) == CHOOSE x \in S : \A y \in S : x <= y

SetMax(S) == CHOOSE x \in S : \A y \in S : x >= y

\* n copies of the character c
Rep(c, n) == [i \in 1..n |-> c]

\* String.prototype.substring(a, b): arguments clamped to 0..length, swapped
\* when a > b
Substring(s, a, b) ==
  LET ca == Max(0, Min(a, Len(s)))
      cb == Max(0, Min(b, Len(s)))
      lo == Min(ca, cb)
      hi == Max(ca, cb)
  IN  IF lo >= hi THEN <<>> ELSE SubSeq(s, lo + 1, hi)

\* String.prototype.substr(start, len) for start >= 0
Substr(s, start, len) ==
  IF start >= Len(s) \/ len <= 0 THEN <<>>
  ELSE SubSeq(s, start + 1, Min(start + len, Len(s)))

\* String.prototype.substr(start)
SubstrFrom(s, start) ==
  IF start >= Len(s) THEN <<>> ELSE SubSeq(s, start + 1, Len(s))

\* String.prototype.lastIndexOf("')"), -1 when absent
LastIndexOfClose(s) ==
  LET hits == {j \in 1..(Len(s) - 1) : s[j] = "'" /\ s[j + 1] = ")"}
  IN  IF hits = {} THEN -1 ELSE SetMax(hits) - 1

\* String.prototype.lastIndexOf("}')"), -1 when absent
LastIndexOfObjClose(s) ==
  LET hits == {j \in 1..(Len(s) - 2) :
                 s[j] = "}" /\ s[j + 1] = "'" /\ s[j + 2] = ")"}
  IN  IF hits = {} THEN -1 ELSE SetMax(hits) - 1

\* the white space and the control characters of the model's alphabet
WhiteSpace == {" ", "\t"}

ControlChars == {"\t"}

\* String.prototype.trimRight()
TrimRight(s) ==
  LET keep == {j \in 1..Len(s) : s[j] \notin WhiteSpace}
  IN  IF keep = {} THEN <<>> ELSE SubSeq(s, 1, SetMax(keep))

\* String.prototype.trim()
Trim(s) ==
  LET keep == {j \in 1..Len(s) : s[j] \notin WhiteSpace}
  IN  IF keep = {} THEN <<>> ELSE SubSeq(s, SetMin(keep), SetMax(keep))

LowerCaseLetters ==
  <<"a","b","c","d","e","f","g","h","i","j","k","l","m",
    "n","o","p","q","r","s","t","u","v","w","x","y","z">>

UpperCaseLetters ==
  <<"A","B","C","D","E","F","G","H","I","J","K","L","M",
    "N","O","P","Q","R","S","T","U","V","W","X","Y","Z">>

\* String.prototype.toUpperCase()
ToUpperCase(s) ==
  [i \in 1..Len(s) |->
     IF \E k \in 1..26 : LowerCaseLetters[k] = s[i]
     THEN UpperCaseLetters[CHOOSE k \in 1..26 : LowerCaseLetters[k] = s[i]]
     ELSE s[i]]

\* position (1-based) of the first single quote of s at or after i, 0 if none
NextQuote(s, i) ==
  LET hits == {j \in i..Len(s) : s[j] = "'"}
  IN  IF hits = {} THEN 0 ELSE SetMin(hits)

\* str.replace(/'/g, "''"): every single quote is doubled
RECURSIVE DoubleQuotes(_)
DoubleQuotes(s) ==
  LET q == NextQuote(s, 1)
  IN  IF q = 0 THEN s
      ELSE SubSeq(s, 1, q) \o <<"'">> \o DoubleQuotes(SubstrFrom(s, q))

\* position (1-based) of the first pair '' of s, 0 if none
NextQuotePair(s) ==
  LET hits == {j \in 1..(Len(s) - 1) : s[j] = "'" /\ s[j + 1] = "'"}
  IN  IF hits = {} THEN 0 ELSE SetMin(hits)

\* str.replace(/''/g, "'"): left to right, every non-overlapping pair of
\* single quotes becomes one single quote
RECURSIVE UndoubleQuotes(_)
UndoubleQuotes(s) ==
  LET q == NextQuotePair(s)
  IN  IF q = 0 THEN s
      ELSE SubSeq(s, 1, q) \o UndoubleQuotes(SubstrFrom(s, q + 1))


(***************************************************************************)
(* JSON values.  A value is a record [t, s, k, m]: a string carries its    *)
(* characters in s; an array its elements in m; an object its keys in k    *)
(* and the values of these keys, in the same order, in m.  The alphabet of *)
(* the model has no backslash, no control character inside JSON text and   *)
(* no number or literal token, so strings need no escape sequences.        *)
(***************************************************************************)
JStr(chars) == [t |-> "str", s |-> chars, k |-> <<>>, m |-> <<>>]

JArr(elems) == [t |-> "arr", s |-> <<>>, k |-> <<>>, m |-> elems]

JObj(keys, vals) == [t |-> "obj", s |-> <<>>, k |-> keys, m |-> vals]

\* the value of obj[key]; JUndefined when obj is no object or has no such key
JUndefined == [t |-> "undefined", s |-> <<>>, k |-> <<>>, m |-> <<>>]

JGet(obj, key) ==
  IF obj.t = "obj" /\ \E i \in 1..Len(obj.k) : obj.k[i] = key
  THEN obj.m[CHOOSE i \in 1..Len(obj.k) : obj.k[i] = key]
  ELSE JUndefined

\* JSON.stringify(v)
RECURSIVE JSONstringify(_)
RECURSIVE StringifyList(_, _, _)
StringifyList(v, i, isObj) ==
  IF i > Len(v.m) THEN <<>>
  ELSE (IF i > 1 THEN <<",">> ELSE <<>>)
       \o (IF isObj THEN <<"\"">> \o v.k[i] \o <<"\"", ":">> ELSE <<>>)
       \o JSONstringify(v.m[i])
       \o StringifyList(v, i + 1, isObj)

JSONstringify(v) ==
  CASE v.t = "str" -> <<"\"">> \o v.s \o <<"\"">>
    [] v.t = "arr" -> <<"[">> \o StringifyList(v, 1, FALSE) \o <<"]">>
    [] v.t = "obj" -> <<"{">> \o StringifyList(v, 1, TRUE) \o <<"}">>

\* first position at or after i that holds no white space (Len(s)+1 if none)
SkipWs(s, i) ==
  IF i > Len(s) \/ s[i] # " " THEN i
  ELSE LET rest == {j \in i..Len(s) : s[j] # " "}
       IN  IF rest = {} THEN Len(s) + 1 ELSE SetMin(rest)

ParseFail == [ok |-> FALSE, val |-> JUndefined, next |-> 0]

\* a string token starting at position i
ParseString(s, i) ==
  IF i > Len(s) \/ s[i] # "\"" THEN ParseFail
  ELSE LET ends == {j \in (i + 1)..Len(s) : s[j] = "\""}
       IN  IF ends = {} THEN ParseFail
           ELSE LET e == SetMin(ends)
                IN  [ok |-> TRUE, val |-> JStr(SubSeq(s, i + 1, e - 1)),
                     next |-> e + 1]

\* an object member list keeps the first position of a repeated key and the
\* last value given for it
PutMember(keys, vals, key, val) ==
  IF \E i \in 1..Len(keys) : keys[i] = key
  THEN LET at == CHOOSE i \in 1..Len(keys) : keys[i] = key
       IN  <<keys, [vals EXCEPT ![at] = val]>>
  ELSE <<Append(keys, key), Append(vals, val)>>

RECURSIVE ParseValue(_, _)
RECURSIVE ParseMembers(_, _, _, _)
RECURSIVE ParseElements(_, _, _)
ParseMembers(s, i, keys, vals) ==
  LET key == ParseString(s, i)
      c   == SkipWs(s, key.next)
      v   == ParseValue(s, c + 1)
      d   == SkipWs(s, v.next)
      kv  == PutMember(keys, vals, key.val.s, v.val)
  IN  IF ~key.ok \/ c > Len(s) \/ s[c] # ":" THEN ParseFail
      ELSE IF ~v.ok \/ d > Len(s) THEN ParseFail
      ELSE IF s[d] = "}"
           THEN [ok |-> TRUE, val |-> JObj(kv[1], kv[2]), next |-> d + 1]
      ELSE IF s[d] = ","
           THEN ParseMembers(s, SkipWs(s, d + 1), kv[1], kv[2])
      ELSE ParseFail

ParseElements(s, i, elems) ==
  LET v == ParseValue(s, i)
      d == SkipWs(s, v.next)
  IN  IF ~v.ok \/ d > Len(s) THEN ParseFail
      ELSE IF s[d] = "]"
           THEN [ok |-> TRUE, val |-> JArr(Append(elems, v.val)), next |-> d + 1]
      ELSE IF s[d] = ","
           THEN ParseElements(s, d + 1, Append(elems, v.val))
      ELSE ParseFail

ParseValue(s, i0) ==
  LET i == SkipWs(s, i0)
      j == SkipWs(s, i + 1)
  IN  IF i > Len(s) THEN ParseFail
      ELSE IF s[i] = "\"" THEN ParseString(s, i)
      ELSE IF s[i] = "{"
           THEN IF j <= Len(s) /\ s[j] = "}"
                THEN [ok |-> TRUE, val |-> JObj(<<>>, <<>>), next |-> j + 1]
                ELSE ParseMembers(s, j, <<>>, <<>>)
      ELSE IF s[i] = "["
           THEN IF j <= Len(s) /\ s[j] = "]"
                THEN [ok |-> TRUE, val |-> JArr(<<>>), next |-> j + 1]
                ELSE ParseElements(s, j, <<>>)
      ELSE ParseFail

\* JSON.parse(s): [ok |-> FALSE] stands for the SyntaxError it throws
JSONparse(s) ==
  LET r == ParseValue(s, 1)
  IN  IF r.ok /\ SkipWs(s, r.next) = Len(s) + 1
      THEN [ok |-> TRUE, val |-> r.val]
      ELSE [ok |-> FALSE, val |-> JUndefined]


(***************************************************************************)
(* chunkData(data, bytes)  -- shared/asyncUtils                            *)
(***************************************************************************)
\* a repair that takes the leading quote off the newest chunk and loses it
fixSingleQuotesLosing(chunks) ==
  LET count == Len(chunks)
  IN  IF count > 1 /\ Substr(chunks[count], 0, 1) = <<"'">>
      THEN [chunks EXCEPT ![count] = SubstrFrom(chunks[count], 1)]
      ELSE chunks

\* fixSingleQuotes(): while the newest chunk starts with a single quote, the
\* quote moves to the end of the chunk before it
RECURSIVE fixSingleQuotes(_)
fixSingleQuotes(chunks) ==
  LET count == Len(chunks)
  IN  IF count > 1 /\ Substr(chunks[count], 0, 1) = <<"'">>
      THEN fixSingleQuotes([chunks EXCEPT
                              ![count] = SubstrFrom(chunks[count], 1),
                              ![count - 1] = chunks[count - 1] \o <<"'">>])
      ELSE chunks

\* a chunker that cuts every chunk at bytes characters, blanks or not
NextChunkSizeWhole(data, bytes) == bytes

\* the size of the next chunk: bytes, less the blanks that end the
\* candidate; bytes again when the candidate is blank throughout.  (The
\* source's countdown loop stops at the last non-blank position.)
NextChunkSize(data, bytes) ==
  LET nonBlank == {j \in 1..bytes : Substr(data, j - 1, 1) # <<" ">>}
      chunkSize == IF nonBlank = {} THEN 0 ELSE SetMax(nonBlank)
  IN  IF chunkSize = 0 THEN bytes ELSE chunkSize

\* one turn of the loop "while (data.length > bytes)"
ChunkLoopBody(data, chunks, bytes) ==
  LET chunkSize == NextChunkSize(data, bytes)
  IN  [data   |-> SubstrFrom(data, chunkSize),
       chunks |-> fixSingleQuotes(Append(chunks, Substr(data, 0, chunkSize)))]

\* the closing "if (data.length > 0)"
ChunkTail(data, chunks) ==
  IF Len(data) > 0 THEN fixSingleQuotes(Append(chunks, data)) ELSE chunks

RECURSIVE ChunkLoop(_, _, _)
ChunkLoop(data, chunks, bytes) ==
  IF Len(data) > bytes
  THEN LET b == ChunkLoopBody(data, chunks, bytes)
       IN  ChunkLoop(b.data, b.chunks, bytes)
  ELSE ChunkTail(data, chunks)

chunkData(data, bytes) == ChunkLoop(data, <<>>, bytes)

(***************************************************************************)
(* htmlObjToDdsLines(htmlObj, htmlLineNum)  -- jsonToDds.js                *)
(***************************************************************************)
ChunkBytes == 2500

kwdOpen == Rep(" ", 5) \o <<"A">> \o Rep(" ", 38)

htmlOpenOf(htmlLineNum) ==
  Rep(" ", 5) \o <<"A">> \o Rep(" ", 32) \o htmlLineNum
    \o <<" ", " ", "2", "H", "T", "M", "L", "(", "'">>

\* continuation lines that are all closed with ') and never flagged
ContinuationLinesClosed(chunk, start, len) ==
  LET turns == IF start >= Len(chunk) THEN 0
               ELSE (Len(chunk) - start + len - 1) \div len
      ddsLine(k) == kwdOpen \o Substr(chunk, start + (k - 1) * len, len)
  IN  [lines |-> [k \in 1..turns |-> ddsLine(k) \o <<"'", ")">>],
       isHtmlClosed |-> turns > 0]

\* the loop "for (pos = len, len = 79 - kwdOpen.length; pos < chunk.length;
\* pos += len)": turn k (k = 1, 2, ...) runs with pos = start + (k - 1) * len
\* and pushes one line; the result is the lines pushed and the value the
\* loop leaves in isHtmlClosed
ContinuationLines(chunk, start, len) ==
  LET turns == IF start >= Len(chunk) THEN 0
               ELSE (Len(chunk) - start + len - 1) \div len
      ddsLine(k) == kwdOpen \o Substr(chunk, start + (k - 1) * len, len)
  IN  [lines |-> [k \in 1..turns |->
                    IF Len(ddsLine(k)) = 79 THEN ddsLine(k) \o <<"-">>
                    ELSE ddsLine(k) \o <<"'", ")">>],
       isHtmlClosed |-> \E k \in 1..turns : Len(ddsLine(k)) # 79]

\* the body without its closing "if (!isHtmlClosed)" push
ChunkLinesUnclosed(chunk, htmlLineNum) ==
  LET htmlOpen == htmlOpenOf(htmlLineNum)
      len == 79 - Len(htmlOpen)
      cont == ContinuationLines(chunk, len, 79 - Len(kwdOpen))
  IN  IF Len(Substr(chunk, 0, len)) <= len - 2
      THEN [lines |-> <<htmlOpen \o Substr(chunk, 0, len) \o <<"'", ")">>>>,
            break |-> TRUE]
      ELSE [lines |-> <<htmlOpen \o Substr(chunk, 0, len) \o <<"-">>>>
                        \o cont.lines,
            break |-> FALSE]

\* the body with its closing push made whether or not the tag is closed
ChunkLinesExtraClose(chunk, htmlLineNum) ==
  LET htmlOpen == htmlOpenOf(htmlLineNum)
      len == 79 - Len(htmlOpen)
      cont == ContinuationLines(chunk, len, 79 - Len(kwdOpen))
  IN  IF Len(Substr(chunk, 0, len)) <= len - 2
      THEN [lines |-> <<htmlOpen \o Substr(chunk, 0, len) \o <<"'", ")">>>>,
            break |-> TRUE]
      ELSE [lines |-> <<htmlOpen \o Substr(chunk, 0, len) \o <<"-">>>>
                        \o cont.lines \o <<kwdOpen \o <<"'", ")">>>>,
            break |-> FALSE]

\* the body of "for (const chunk of htmlChunks)": the lines pushed for one
\* chunk, and whether the body left the loop by its break
ChunkLines(chunk, htmlLineNum) ==
  LET htmlOpen == htmlOpenOf(htmlLineNum)
      len == 79 - Len(htmlOpen)
      availLength == Substr(chunk, 0, len)
      cont == ContinuationLines(chunk, len, 79 - Len(kwdOpen))
  IN  IF Len(availLength) <= len - 2
      THEN [lines |-> <<htmlOpen \o Substr(chunk, 0, len) \o <<"'", ")">>>>,
            break |-> TRUE]
      ELSE [lines |-> <<htmlOpen \o Substr(chunk, 0, len) \o <<"-">>>>
                        \o cont.lines
                        \o (IF ~cont.isHtmlClosed
                            THEN <<kwdOpen \o <<"'", ")">>>> ELSE <<>>),
            break |-> FALSE]

RECURSIVE RenderChunks(_, _, _)
RenderChunks(htmlChunks, i, htmlLineNum) ==
  IF i > Len(htmlChunks) THEN <<>>
  ELSE LET c == ChunkLines(htmlChunks[i], htmlLineNum)
       IN  c.lines \o (IF c.break THEN <<>>
                       ELSE RenderChunks(htmlChunks, i + 1, htmlLineNum))

\* the escaped text that is chunked
htmlDataOf(htmlObj) == DoubleQuotes(JSONstringify(htmlObj))

\* [ok |-> FALSE] is the TypeError of JSON.stringify(undefined).replace
htmlObjToDdsLines(htmlObj, htmlLineNum) ==
  IF htmlObj = JUndefined THEN [ok |-> FALSE, lines |-> <<>>]
  ELSE [ok |-> TRUE,
        lines |-> RenderChunks(chunkData(htmlDataOf(htmlObj), ChunkBytes),
                               1, htmlLineNum)]

(***************************************************************************)
(* getFormatsFromSrc(srcLines)  -- ddsToJson                               *)
(***************************************************************************)
HTMLOPEN == <<"H", "T", "M", "L", "(", "'">>

HTMLJSONOPEN == HTMLOPEN \o <<"{">>

ScanInit ==
  [isHtmlJsonTag |-> FALSE, htmlTag |-> <<>>, formats |-> <<>>,
   rejected |-> FALSE]

\* the second half of the forEach callback (lines 66-76): is this line the
\* opening line of a tag?  A parse error here is not caught by the callback
\* and ends the scan in a rejection.
ScanOpen(st, line) ==
  LET endPos == LastIndexOfClose(line)
      p == JSONparse(UndoubleQuotes(st.htmlTag \o Substring(line, 50, endPos)))
  IN  IF Substr(line, 44, 7) # HTMLJSONOPEN
      THEN [st EXCEPT !.isHtmlJsonTag = FALSE]
      ELSE IF Substr(line, 79, 1) # <<"-">>
           THEN IF p.ok
                THEN [st EXCEPT !.isHtmlJsonTag = FALSE,
                                !.formats = Append(@, p.val)]
                ELSE [st EXCEPT !.isHtmlJsonTag = TRUE, !.rejected = TRUE]
           ELSE [st EXCEPT !.isHtmlJsonTag = TRUE,
                           !.htmlTag = @ \o Substring(line, 50, 79)]

\* the forEach callback for one line
ScanLine(st, line) ==
  LET strPos == IF Substr(line, 44, 6) = HTMLOPEN THEN 50 ELSE 44
      endPos == LastIndexOfClose(line)
      text   == st.htmlTag \o Substring(line, strPos, endPos)
      p      == JSONparse(UndoubleQuotes(text))
  IN  IF st.rejected THEN st
      ELSE IF st.isHtmlJsonTag
      THEN IF Substr(line, 79, 1) # <<"-">>
           THEN IF p.ok
                THEN ScanOpen([st EXCEPT !.formats = Append(@, p.val),
                                         !.htmlTag = <<>>,
                                         !.isHtmlJsonTag = FALSE], line)
                ELSE [st EXCEPT !.htmlTag = text]
           ELSE [st EXCEPT !.htmlTag = @ \o Substring(line, strPos, 79)]
      ELSE ScanOpen(st, line)

\* srcLines.forEach over the lines lo..hi, started in state st.  The fold is
\* split in halves only to keep the evaluation shallow; the lines are still
\* visited once each, in order, and nothing is visited after a rejection.
RECURSIVE ScanFrom(_, _, _, _)
ScanFrom(st, srcLines, lo, hi) ==
  IF lo > hi \/ st.rejected THEN st
  ELSE IF lo = hi THEN ScanLine(st, srcLines[lo])
  ELSE LET mid  == (lo + hi) \div 2
           left == ScanFrom(st, srcLines, lo, mid)
       IN  IF left.rejected THEN left
           ELSE ScanFrom(left, srcLines, mid + 1, hi)

\* one flag and one buffer for every call: a module-level scan state, which
\* the code does not have
SharedState(cs, who) == cs["a"].st

\* the accumulation flag, the buffer and the list a call works on: the let
\* and const of lines 30-32, created anew by every call
CallState(cs, who) == cs[who].st

\* [ok |-> FALSE] is the rejected promise of the catch at line 80
getFormatsFromSrc(srcLines) ==
  LET st == ScanFrom(ScanInit, srcLines, 1, Len(srcLines))
  IN  [ok |-> ~st.rejected,
       formats |-> IF st.rejected THEN <<>> ELSE st.formats]


(***************************************************************************)
(* conversionV1(newJsonSrcObj, origSrcLines)  -- jsonToDds.js              *)
(* newJsonSrcObj.formats is a sequence of JSON values.                     *)
(***************************************************************************)
rcdFmtOpen == <<"A", " ", " ", " ", " ", " ", " ", " ", " ", " ", " ", "R">>

SPECLINE == <<"A", " ">>

RECORDFORMATNAME ==
  <<"r", "e", "c", "o", "r", "d", " ", "f", "o", "r", "m", "a", "t", " ",
    "n", "a", "m", "e">>

SCREEN == <<"s", "c", "r", "e", "e", "n">>

\* rcdFmt before the first record-format header: the JavaScript undefined
NoRcdFmt == <<"undefined">>

\* x.screen['record format name'].toUpperCase() can be evaluated without a
\* TypeError
HasFormatName(x) == JGet(JGet(x, SCREEN), RECORDFORMATNAME).t = "str"

FormatNameUpper(x) == ToUpperCase(JGet(JGet(x, SCREEN), RECORDFORMATNAME).s)

\* the lookup that takes the last payload of the name
LastFormat(formats, rcdFmt) ==
  LET hits == {i \in 1..Len(formats) : FormatNameUpper(formats[i]) = rcdFmt}
  IN  IF \E i \in 1..Len(formats) : ~HasFormatName(formats[i])
      THEN [ok |-> FALSE, obj |-> JUndefined]
      ELSE IF hits = {} THEN [ok |-> TRUE, obj |-> JUndefined]
      ELSE [ok |-> TRUE, obj |-> formats[SetMax(hits)]]

\* formats.filter(x => x.screen['record format name'].toUpperCase() ===
\* rcdFmt)[0]; the filter visits every format, so one format without a name
\* makes it throw
FirstFormat(formats, rcdFmt) ==
  LET hits == {i \in 1..Len(formats) : FormatNameUpper(formats[i]) = rcdFmt}
  IN  IF \E i \in 1..Len(formats) : ~HasFormatName(formats[i])
      THEN [ok |-> FALSE, obj |-> JUndefined]
      ELSE IF hits = {} THEN [ok |-> TRUE, obj |-> JUndefined]
      ELSE [ok |-> TRUE, obj |-> formats[SetMin(hits)]]

\* the lookup and rendering with the tag read one column too far right
RenderFormatShifted(formats, rcdFmt, origSrcLine) ==
  LET formatObj == FirstFormat(formats, rcdFmt)
  IN  IF ~formatObj.ok THEN [ok |-> FALSE, lines |-> <<>>]
      ELSE htmlObjToDdsLines(formatObj.obj, Substr(origSrcLine, 39, 3))

\* lines 243-245 and 253-255: look the payload up and render it
RenderFormat(formats, rcdFmt, origSrcLine) ==
  LET formatObj == FirstFormat(formats, rcdFmt)
  IN  IF ~formatObj.ok THEN [ok |-> FALSE, lines |-> <<>>]
      ELSE htmlObjToDdsLines(formatObj.obj, Substr(origSrcLine, 38, 3))

\* line 240: a specification line that is not flagged as continuing
ClosesTag(line) ==
  Substr(line, 5, 2) = SPECLINE /\ Substr(line, 79, 1) # <<"-">>

\* lines 250-251: the text in which the end of the object is looked for
\* (idx is the 0-based srcIdx, idx >= 1)
TempText(lines, idx) ==
  Substring(lines[idx], 44, 79) \o Substring(lines[idx + 1], 44, 80)

\* the inner loop "for (; srcIdx < origSrcLines.length; srcIdx++)" entered at
\* srcIdx = start: the turn at which it renders and breaks.
\*   end: the 0-based index of that turn, Len(lines) when the loop runs out;
\*   thrown: line 250 reads origSrcLines[-1] (the turn start = 0)
MergeRegionEnd(lines, start) ==
  LET last == Len(lines) - 1
      Candidate(j) ==
        /\ ClosesTag(lines[j + 1])
        /\ \/ j = last
           \/ /\ Substr(lines[j + 2], 44, 6) # HTMLOPEN
              /\ j >= 1
              /\ LastIndexOfObjClose(TempText(lines, j)) # -1
      ends == {j \in start..last : Candidate(j)}
      thrown == /\ start = 0
                /\ 0 # last
                /\ ClosesTag(lines[1])
                /\ Substr(lines[2], 44, 6) # HTMLOPEN
  IN  [thrown |-> thrown,
       end |-> IF ends = {} THEN Len(lines) ELSE SetMin(ends)]

\* the outer loop from srcIdx on; rcdFmt is the name of the current record
\* format, ddsLines the lines pushed so far.  [ok |-> FALSE] is the rejected
\* promise.
RECURSIVE MergeFrom(_, _, _, _, _)
MergeFrom(formats, lines, srcIdx, rcdFmt, ddsLines) ==
  IF srcIdx >= Len(lines) THEN [ok |-> TRUE, lines |-> ddsLines]
  ELSE
    LET origSrcLine == lines[srcIdx + 1]
    IN  IF Substr(origSrcLine, 5, 12) = rcdFmtOpen
        THEN MergeFrom(formats, lines, srcIdx + 1,
                       ToUpperCase(TrimRight(Substr(origSrcLine, 18, 10))),
                       Append(ddsLines, origSrcLine))
        ELSE IF Substr(origSrcLine, 5, 2) = SPECLINE
                  /\ Substr(origSrcLine, 44, 7) = HTMLJSONOPEN
        THEN LET region == MergeRegionEnd(lines, srcIdx)
                 new    == RenderFormat(formats, rcdFmt, origSrcLine)
             IN  IF region.thrown THEN [ok |-> FALSE, lines |-> <<>>]
                 ELSE IF region.end = Len(lines)
                 THEN [ok |-> TRUE, lines |-> ddsLines]
                 ELSE IF ~new.ok THEN [ok |-> FALSE, lines |-> <<>>]
                 ELSE MergeFrom(formats, lines, region.end + 1, rcdFmt,
                                ddsLines \o new.lines)
        ELSE MergeFrom(formats, lines, srcIdx + 1, rcdFmt,
                       Append(ddsLines, origSrcLine))

\* a rejected conversion returns no line at all
conversionV1(newJsonSrcObj, origSrcLines) ==
  MergeFrom(newJsonSrcObj.formats, origSrcLines, 0, NoRcdFmt, <<>>)


(***************************************************************************)
(* getDdsFromSrc(srcLines)  -- ddsToJson                                   *)
(***************************************************************************)
ITEMS == <<"i", "t", "e", "m", "s">>

FIELDNAME == <<"f", "i", "e", "l", "d", "N", "a", "m", "e">>

HTMLCONTROLOPEN == HTMLOPEN \o <<"Q", "P", "U", "I">>

GENERATED == <<"A", "*", "%", "%">>

SFL == <<"S", "F", "L">>

\* typeof itemValue === 'object' && itemValue.fieldName
IsBinding(itemValue) ==
  /\ itemValue.t = "obj"
  /\ JGet(itemValue, FIELDNAME) # JUndefined
  /\ JGet(itemValue, FIELDNAME) # JStr(<<>>)

\* the values of the own properties of one item (for ... in): the members
\* of an object, the elements of an array, the characters of a string
ItemValues(item) == IF item.t = "str" THEN <<>> ELSE item.m

\* getBoundFields(rcdFmt): the upper-cased fieldName of every binding that
\* is the value of a property of an item.  [ok |-> FALSE] is a TypeError:
\* no payload, items that cannot be iterated, or a fieldName that is no
\* string.
RECURSIVE FieldsOfValues(_, _)
FieldsOfValues(vals, i) ==
  IF i > Len(vals) THEN <<>>
  ELSE (IF IsBinding(vals[i])
        THEN <<ToUpperCase(JGet(vals[i], FIELDNAME).s)>> ELSE <<>>)
       \o FieldsOfValues(vals, i + 1)

RECURSIVE FieldsOfItems(_, _)
FieldsOfItems(items, i) ==
  IF i > Len(items) THEN <<>>
  ELSE FieldsOfValues(ItemValues(items[i]), 1) \o FieldsOfItems(items, i + 1)

\* a collection that finds no binding at all
getBoundFieldsNone(rcdFmt) == [ok |-> TRUE, fields |-> <<>>]

getBoundFields(rcdFmt) ==
  LET items == JGet(rcdFmt, ITEMS)
      list  == IF items.t = "arr" THEN items.m ELSE <<>>
      bad   == \E i \in 1..Len(list) :
                 \E j \in 1..Len(ItemValues(list[i])) :
                   /\ IsBinding(ItemValues(list[i])[j])
                   /\ JGet(ItemValues(list[i])[j], FIELDNAME).t # "str"
  IN  IF items.t \notin {"arr", "str"} \/ bad
      THEN [ok |-> FALSE, fields |-> <<>>]
      ELSE [ok |-> TRUE, fields |-> FieldsOfItems(list, 1)]

\* line.replace(/[\x00-\x09\x0B-\x1F\x7F-\x9F]/g, ' ').trimRight()
CleanLine(line) ==
  TrimRight([i \in 1..Len(line) |->
               IF line[i] \in ControlChars THEN " " ELSE line[i]])

\* lines 256-258: "while (srcLines[srcIdx].substr(79, 1) === '-') srcIdx++",
\* entered at start: the index it stops at; thrown when it runs off the end
ControlEnd(lines, start) ==
  LET stops == {j \in start..(Len(lines) - 1) :
                  Substr(lines[j + 1], 79, 1) # <<"-">>}
  IN  IF stops = {} THEN [thrown |-> TRUE, end |-> Len(lines)]
      ELSE [thrown |-> FALSE, end |-> SetMin(stops)]

\* lines 264-275: the loop that skips a payload region, entered at start.
\* The first closing line that is the last line of the document makes line
\* 267 read srcLines[length]; a closing line at index 0 makes line 268 read
\* srcLines[-1]: both throw.
EchoRegionEnd(lines, start) ==
  LET last == Len(lines) - 1
      Decisive(j) ==
        /\ ClosesTag(lines[j + 1])
        /\ \/ j = last
           \/ /\ Substr(lines[j + 2], 44, 6) # HTMLOPEN
              /\ \/ j = 0
                 \/ LastIndexOfObjClose(TempText(lines, j)) # -1
      ends == {j \in start..last : Decisive(j)}
  IN  IF ends = {} THEN [thrown |-> FALSE, end |-> Len(lines)]
      ELSE [thrown |-> SetMin(ends) = last \/ SetMin(ends) = 0,
            end |-> SetMin(ends)]

NoBoundFields == [set |-> FALSE, fields |-> <<>>]

\* the loop of getDdsFromSrc from srcIdx on.  rcdFmtObj is the filtered
\* format list reduced to [set, obj]: whether a header has been seen, and
\* rcdFmtObj[0]; boundFields is [set, fields], set = FALSE for null;
\* returnDds is the echo pushed so far.
RECURSIVE EchoFrom(_, _, _, _, _, _, _)
EchoFrom(formats, lines, srcIdx, isSFL, rcdFmtObj, boundFields, returnDds) ==
  IF srcIdx >= Len(lines) THEN [ok |-> TRUE, lines |-> returnDds]
  ELSE
    LET line   == lines[srcIdx + 1]
        isHdr  == Substr(line, 5, 12) = rcdFmtOpen
        found  == FirstFormat(formats, TrimRight(Substr(line, 18, 10)))
        sfl    == IF isHdr THEN Trim(Substr(line, 44, 36)) = SFL ELSE isSFL
        fmtObj == IF isHdr THEN [set |-> TRUE, obj |-> found.obj]
                  ELSE rcdFmtObj
        bound  == IF isHdr THEN NoBoundFields ELSE boundFields
        ctl    == ControlEnd(lines, srcIdx)
        region == EchoRegionEnd(lines, srcIdx)
        fields == IF fmtObj.set /\ fmtObj.obj # JUndefined
                  THEN getBoundFields(fmtObj.obj)
                  ELSE [ok |-> FALSE, fields |-> <<>>]
        isBoundHidden ==
          /\ bound.set
          /\ Substr(line, 5, 2) = SPECLINE
          /\ Substr(line, 37, 1) = <<"H">>
          /\ \E i \in 1..Len(bound.fields) :
               bound.fields[i] = TrimRight(Substr(line, 18, 10))
        keep   == /\ line # <<>>
                  /\ Substr(line, 5, 4) # GENERATED
                  /\ ~isBoundHidden
        Fail   == [ok |-> FALSE, lines |-> <<>>]
    IN  IF isHdr /\ ~found.ok THEN Fail
        ELSE IF Substr(line, 5, 2) = SPECLINE
                /\ Substr(line, 44, 10) = HTMLCONTROLOPEN
        THEN IF ctl.thrown THEN Fail
             ELSE EchoFrom(formats, lines, ctl.end + 1, sfl, fmtObj, bound,
                           returnDds)
        ELSE IF ~sfl /\ Substr(line, 5, 2) = SPECLINE
                /\ Substr(line, 44, 7) = HTMLJSONOPEN
        THEN IF region.thrown THEN Fail
             ELSE IF region.end = Len(lines)
             THEN [ok |-> TRUE, lines |-> returnDds]
             ELSE IF ~fields.ok THEN Fail
             ELSE EchoFrom(formats, lines, region.end + 1, sfl, fmtObj,
                           [set |-> TRUE, fields |-> fields.fields],
                           returnDds)
        ELSE EchoFrom(formats, lines, srcIdx + 1, sfl, fmtObj, bound,
                      IF keep THEN Append(returnDds, CleanLine(line))
                      ELSE returnDds)

\* [ok |-> FALSE] is the rejected promise: of the scan, or of a TypeError
getDdsFromSrc(srcLines) ==
  LET scan == getFormatsFromSrc(srcLines)
  IN  IF ~scan.ok THEN [ok |-> FALSE, lines |-> <<>>]
      ELSE EchoFrom(scan.formats, srcLines, 0, FALSE,
                    [set |-> FALSE, obj |-> JUndefined], NoBoundFields, <<>>)

(***************************************************************************)
(* getKeywordsFromSrc (ddsToJson): the file-level keyword entries.         *)
(***************************************************************************)
PUICOMMENT == <<"A", "*", "P", "U", "I">>

\* the break test of the loop: a specification line with R in column 17
IsFirstFormat(line) ==
  Substr(line, 5, 2) = SPECLINE /\ Substr(line, 16, 1) = <<"R">>

\* the keyword area of a line, right-trimmed
KeywordArea(line) == TrimRight(Substr(line, 44, 36))

\* the lines that contribute an entry: '' is falsy and pushes nothing
HasKeyword(line) ==
  /\ Substr(line, 5, 2) = SPECLINE \/ Substr(line, 5, 5) = PUICOMMENT
  /\ KeywordArea(line) # <<>>

\* the loop without its break: every keyword-bearing line of the document
RECURSIVE KeywordsFromAll(_, _, _)
KeywordsFromAll(lines, i, acc) ==
  IF i > Len(lines) THEN acc
  ELSE KeywordsFromAll(lines, i + 1,
                       IF HasKeyword(lines[i])
                       THEN Append(acc, KeywordArea(lines[i]))
                       ELSE acc)

\* for (const line of srcLines), from the 1-based index i, pushing onto acc
RECURSIVE KeywordsFrom(_, _, _)
KeywordsFrom(lines, i, acc) ==
  IF i > Len(lines) THEN acc
  ELSE IF IsFirstFormat(lines[i]) THEN acc
  ELSE KeywordsFrom(lines, i + 1,
                    IF HasKeyword(lines[i])
                    THEN Append(acc, KeywordArea(lines[i]))
                    ELSE acc)

\* nothing in the loop throws on an array of strings: the promise resolves
getKeywordsFromSrc(srcLines) ==
  [ok |-> TRUE, keywords |-> KeywordsFrom(srcLines, 1, <<>>)]

(***************************************************************************)
(* The structural tests the loops apply to a line, as the code writes them.*)
(***************************************************************************)
LINEWIDTH == 80

\* String.prototype.padEnd(n), with blanks
PadEnd(s, n) == IF Len(s) >= n THEN s ELSE s \o Rep(" ", n - Len(s))

StructuralTests(line) ==
  [spec      |-> Substr(line, 5, 2) = SPECLINE,
   header    |-> Substr(line, 5, 12) = rcdFmtOpen,
   firstFmt  |-> IsFirstFormat(line),
   hidden    |-> Substr(line, 37, 1) = <<"H">>,
   html      |-> Substr(line, 44, 6) = HTMLOPEN,
   htmlJson  |-> Substr(line, 44, 7) = HTMLJSONOPEN,
   control   |-> Substr(line, 44, 10) = HTMLCONTROLOPEN,
   sfl       |-> Trim(Substr(line, 44, 36)) = SFL,
   keyword   |-> KeywordArea(line) # <<>>,
   continued |-> Substr(line, 79, 1) = <<"-">>]

(***************************************************************************)
(* main (ddsToJson, jsonToDds, verifyConvert): reading the source lines.   *)
(***************************************************************************)
DecimalDigits == {"0", "1", "2", "3", "4", "5", "6", "7", "8", "9"}

HexDigits ==
  DecimalDigits
    \cup {"a", "b", "c", "d", "e", "f", "A", "B", "C", "D", "E", "F"}

PREFIXLEN == 12

\* String.prototype.trimStart(), as parseInt applies it to its argument
TrimLeft(s) ==
  LET keep == {j \in 1..Len(s) : s[j] \notin WhiteSpace}
  IN  IF keep = {} THEN <<>> ELSE SubSeq(s, SetMin(keep), Len(s))

\* isNaN(Number.parseInt(s)): after the leading white space and one optional
\* sign, s does not begin with a digit (a hexadecimal one after 0x or 0X)
ParseIntIsNaN(s) ==
  LET t == TrimLeft(s)
      u == IF t # <<>> /\ t[1] \in {"+", "-"} THEN SubstrFrom(t, 1) ELSE t
  IN  IF Len(u) >= 2 /\ u[1] = "0" /\ u[2] \in {"x", "X"}
      THEN Len(u) < 3 \/ u[3] \notin HexDigits
      ELSE u = <<>> \/ u[1] \notin DecimalDigits

\* srcLine => isNaN(Number.parseInt(srcLine.substr(0, 12)))
\*              ? srcLine : srcLine.substr(12)
StripPrefix(line) ==
  IF ParseIntIsNaN(Substr(line, 0, PREFIXLEN)) THEN line
  ELSE SubstrFrom(line, PREFIXLEN)

\* source.split(CRLF).map(StripPrefix)
StripLines(lines) == [i \in 1..Len(lines) |-> StripPrefix(lines[i])]

ALLINONE == <<"A", "L", "L", "I", "N", "O", "N", "E">>

\* srcLines.findIndex(srcLine => srcLine.substr(44, 5) === 'HTML(') !== -1
IsRichDisplay(lines) ==
  \E i \in 1..Len(lines) : Substr(lines[i], 44, 5) = Substr(HTMLOPEN, 0, 5)

\* dspf.keywords.includes('ALLINONE')
IsAllInOne(kwds) == \E i \in 1..Len(kwds) : kwds[i] = ALLINONE


(***************************************************************************)
(* The inputs of the model: payloads, DDS lines, documents.                *)
(***************************************************************************)
RECFMT1 == <<"R", "E", "C", "F", "M", "T", "1">>

RECFMT2 == <<"R", "E", "C", "F", "M", "T", "2">>

FLD1 == <<"F", "L", "D", "1">>

FLD2 == <<"F", "L", "D", "2">>

IDKEY == <<"i", "d">>

VALUEKEY == <<"v", "a", "l", "u", "e">>

\* {"screen":{"record format name":name},"items":[...]}
Payload(name, items) ==
  JObj(<<SCREEN, ITEMS>>,
       <<JObj(<<RECORDFORMATNAME>>, <<JStr(name)>>), JArr(items)>>)

\* {"id":id,"value":{"fieldName":field}}
BoundItem(id, field) ==
  JObj(<<IDKEY, VALUEKEY>>, <<JStr(id), JObj(<<FIELDNAME>>, <<JStr(field)>>)>>)

\* {"id":id}
PlainItem(id) == JObj(<<IDKEY>>, <<JStr(id)>>)

\* 54 characters: rendered on two lines
PEmpty == Payload(RECFMT1, <<>>)

\* 93 characters, binds FLD1: rendered on three lines, the last 75 wide
PBound == Payload(RECFMT1, <<BoundItem(<<"a">>, FLD1)>>)

\* 98 characters, binds FLD1: rendered on three lines, the last 80 wide
\* with the closing marker in columns 79-80
PWide ==
  Payload(RECFMT1, <<BoundItem(<<"a", "b", "c", "d", "e", "f">>, FLD1)>>)

\* a payload of another record format
POther == Payload(RECFMT2, <<>>)

\* "     A          R name" -- a record-format header, not padded
HeaderLine(name) ==
  Rep(" ", 5) \o <<"A">> \o Rep(" ", 10) \o <<"R", " ">> \o name

\* "     A            name      10A  H" -- a field definition; usage is
\* the character of column 38
FieldLine(name, usage) ==
  Rep(" ", 5) \o <<"A">> \o Rep(" ", 12) \o name \o Rep(" ", 10 - Len(name))
    \o Rep(" ", 4) \o <<"1", "0", "A", " ", " ">> \o <<usage>>

\* "     A* x" -- a comment
CommentLine == Rep(" ", 5) \o <<"A", "*", " ", "x">>

\* "     A ... HTML('QPUI')" -- a control section on one line
ControlLine == kwdOpen \o HTMLCONTROLOPEN \o <<"'", ")">>

BlankLine == <<>>

\* the physical lines of one tag whose value is text, in the layout of the
\* display-file designer: a text of at most 28 characters on one line; else
\* 29 characters after the opening marker and 35 on every further line, "-"
\* in column 80 of every line but the last, which holds at most 34
TagLines(text, htmlLineNum) ==
  LET more == IF Len(text) <= 28 THEN 0 ELSE (Len(text) - 29) \div 35 + 1
  IN  [k \in 1..(1 + more) |->
         (IF k = 1 THEN htmlOpenOf(htmlLineNum) \o Substr(text, 0, 29)
          ELSE kwdOpen \o Substr(text, 29 + 35 * (k - 2), 35))
         \o (IF k = 1 + more THEN <<"'", ")">> ELSE <<"-">>)]

\* the display-line-number tags (columns 39-41 of a tag's opening line)
LineNum1 == <<" ", " ", "1">>

LineNum12 == <<" ", "1", "2">>

\* the whole tag on one physical line, however long
WideTagLine(text, htmlLineNum) ==
  htmlOpenOf(htmlLineNum) \o text \o <<"'", ")">>

RECURSIVE Flatten(_)
Flatten(segs) ==
  IF segs = <<>> THEN <<>> ELSE Head(segs) \o Flatten(Tail(segs))

\* all sequences of at most n elements of the set S
SeqsUpTo(S, n) == UNION {[1..k -> S] : k \in 0..n}


(***************************************************************************)
(* The state before any call, per group of variables.                      *)
(***************************************************************************)
NoResult == [ok |-> FALSE, lines |-> <<>>]

NoScan == [ok |-> FALSE, formats |-> <<>>]

ChunkIdle ==
  /\ chunkInput = <<>>
  /\ nBytes = 0
  /\ remaining = <<>>
  /\ pushed = <<>>

RenderIdle ==
  /\ payload = JUndefined
  /\ lineTag = <<>>
  /\ rtnLines = <<>>

DocIdle ==
  /\ document = <<>>
  /\ scanned = NoScan
  /\ newModel = [formats |-> <<>>]
  /\ mergeResult = NoResult
  /\ echoResult = NoResult

NoKeywords == [ok |-> FALSE, keywords |-> <<>>]

LoadIdle == source = <<>>

KeywordIdle == keywords = NoKeywords

LineIdle ==
  /\ srcLine = <<>>
  /\ answers = <<>>

CallsIdle == calls = <<>>

NoBound == [ok |-> FALSE, fields |-> <<>>]

BoundIdle == boundResult = NoBound

\* the two converter modules
Tools == {"ddsToJson", "jsonToDds"}

\* a variable that was declared and never assigned
UNDEFINED == <<"undefined">>

\* "let isDdsFile = false" of both modules and "let outFileName" of
\* ddsToJson, as the modules are loaded
ModuleLoaded ==
  /\ isDdsFile = [t \in Tools |-> FALSE]
  /\ outFileName = UNDEFINED

ProcIdle == ModuleLoaded /\ conversions = <<>>

AuxIdle ==
  /\ LoadIdle
  /\ KeywordIdle
  /\ LineIdle
  /\ CallsIdle
  /\ BoundIdle
  /\ ProcIdle

(***************************************************************************)
(* SpecChunk: chunkData(data, bytes) on every string of at most MaxStrLen   *)
(* characters over a quote, a blank and a letter, one loop turn per step.  *)
(***************************************************************************)
MaxStrLen == 6

MaxBytes == 3

ChunkAlphabet == {"'", " ", "x"}

InitChunk ==
  /\ pc = "chunk"
  /\ chunkInput \in SeqsUpTo(ChunkAlphabet, MaxStrLen)
  /\ nBytes \in 1..MaxBytes
  /\ remaining = chunkInput
  /\ pushed = <<>>
  /\ RenderIdle
  /\ AuxIdle
  /\ DocIdle

\* one turn of "while (remaining.length > nBytes)"
ChunkDataLoop ==
  /\ pc = "chunk"
  /\ Len(remaining) > nBytes
  /\ remaining' = ChunkLoopBody(remaining, pushed, nBytes).data
  /\ pushed' = ChunkLoopBody(remaining, pushed, nBytes).chunks
  /\ UNCHANGED <<auxVars, pc, chunkInput, nBytes, renderVars, docVars>>

\* the loop ends; the rest of data is pushed and the chunks are returned
ChunkDataReturn ==
  /\ pc = "chunk"
  /\ Len(remaining) <= nBytes
  /\ pushed' = ChunkTail(remaining, pushed)
  /\ pc' = "chunked"
  /\ UNCHANGED <<auxVars, chunkInput, nBytes, remaining, renderVars, docVars>>

NextChunk == ChunkDataLoop \/ ChunkDataReturn

SpecChunk == InitChunk /\ [][NextChunk]_vars

(***************************************************************************)
(* SpecRender: htmlObjToDdsLines on a payload, then getFormatsFromSrc on   *)
(* the lines it returned.  The payloads carry one item whose text makes    *)
(* the escaped serialization 63 + n characters long.                      *)
(***************************************************************************)
MaxPad == 36

\* with this many letters the serialization is 5 short of ChunkBytes
LongFill == ChunkBytes - 68

PayloadOfText(text) == Payload(RECFMT1, <<PlainItem(text)>>)

\* {"id":"x..x"}: 9 + n characters
SmallPayload(n) == JObj(<<IDKEY>>, <<JStr(Rep("x", n))>>)

RenderPayloads ==
  {SmallPayload(n) : n \in 0..MaxPad}
    \cup {PayloadOfText(Rep("x", n)) : n \in 0..MaxPad}
    \cup {PayloadOfText(Rep("x", LongFill + n)) : n \in 0..MaxPad}
    \cup {PayloadOfText(Rep("x", LongFill + n) \o <<"'">> \o Rep("x", 10)) :
            n \in 0..MaxPad}

InitRender ==
  /\ pc = "render"
  /\ payload \in RenderPayloads
  /\ lineTag \in {LineNum1, LineNum12}
  /\ rtnLines = <<>>
  /\ ChunkIdle
  /\ DocIdle
  /\ AuxIdle

Render ==
  /\ pc = "render"
  /\ rtnLines' = htmlObjToDdsLines(payload, lineTag).lines
  /\ pc' = "rendered"
  /\ UNCHANGED <<auxVars, payload, lineTag, chunkVars, docVars>>

ScanRendered ==
  /\ pc = "rendered"
  /\ document' = rtnLines
  /\ scanned' = getFormatsFromSrc(rtnLines)
  /\ pc' = "rescanned"
  /\ UNCHANGED <<auxVars, renderVars, chunkVars, newModel, mergeResult,
                 echoResult>>

NextRender == Render \/ ScanRendered

SpecRender == InitRender /\ [][NextRender]_vars

(***************************************************************************)
(* SpecMerge: a document of at most MaxDocSegs segments is scanned, merged *)
(* with the model the scan extracted, and merged with a model of its own.  *)
(***************************************************************************)
MaxDocSegs == 4

\* the payload named in lower case: {"screen":{"record format name":
\* "recfmt1"},"items":[]}
PLower == Payload(<<"r", "e", "c", "f", "m", "t", "1">>, <<>>)

SegHeader == <<HeaderLine(RECFMT1)>>

SegField == <<FieldLine(FLD1, "H")>>

SegControl == <<ControlLine>>

SegBlank == <<BlankLine>>

\* payload regions: three lines, the last 75 wide; three lines, the last 80
\* wide; one line of 106 characters
SegBound == TagLines(htmlDataOf(PBound), LineNum1)

SegWide == TagLines(htmlDataOf(PWide), LineNum12)

SegSingle == <<WideTagLine(htmlDataOf(PEmpty), LineNum1)>>

MergeSegs ==
  {SegHeader, SegField, SegControl, SegBlank, SegBound, SegWide, SegSingle}

\* lines is a document made of at most MaxDocSegs of the segments segs
IsDocOf(lines, segs) ==
  \E d \in SeqsUpTo(segs, MaxDocSegs) : lines = Flatten(d)

NewModels ==
  {<<>>, <<POther>>, <<PLower>>, <<PBound, PEmpty>>, <<PLower, PBound>>}

InitMerge ==
  /\ pc = "merge"
  /\ IsDocOf(document, MergeSegs)
  /\ scanned = NoScan
  /\ newModel = [formats |-> <<>>]
  /\ mergeResult = NoResult
  /\ echoResult = NoResult
  /\ ChunkIdle
  /\ RenderIdle
  /\ AuxIdle

\* getFormatsFromSrc(document)
Scan ==
  /\ pc = "merge"
  /\ scanned' = getFormatsFromSrc(document)
  /\ pc' = "scanned"
  /\ UNCHANGED <<auxVars, document, newModel, mergeResult, echoResult,
                 chunkVars, renderVars>>

\* conversionV1 with the formats the scan returned
MergeScanned ==
  /\ pc = "scanned"
  /\ scanned.ok
  /\ newModel' = [formats |-> scanned.formats]
  /\ mergeResult' = conversionV1(newModel', document)
  /\ pc' = "mergedSame"
  /\ UNCHANGED <<auxVars, document, scanned, echoResult, chunkVars, renderVars>>

\* conversionV1 with another model
MergeNew ==
  /\ pc = "merge"
  /\ \E m \in NewModels : newModel' = [formats |-> m]
  /\ mergeResult' = conversionV1(newModel', document)
  /\ pc' = "mergedNew"
  /\ UNCHANGED <<auxVars, document, scanned, echoResult, chunkVars, renderVars>>

NextMerge == Scan \/ MergeScanned \/ MergeNew

SpecMerge == InitMerge /\ [][NextMerge]_vars

(***************************************************************************)
(* SpecEcho: getDdsFromSrc on a document of at most MaxDocSegs segments.   *)
(***************************************************************************)
\* "     A          R RECFMT1   ...   SFL": a header with the keyword SFL
SegHeaderSFL ==
  <<HeaderLine(RECFMT1) \o Rep(" ", 44 - Len(HeaderLine(RECFMT1))) \o SFL>>

SegHeader2 == <<HeaderLine(RECFMT2)>>

SegField2 == <<FieldLine(FLD2, "H")>>

EchoSegs ==
  {SegHeader, SegHeaderSFL, SegHeader2, SegField, SegField2, SegBound,
   SegControl, SegBlank}

InitEcho ==
  /\ pc = "echo"
  /\ IsDocOf(document, EchoSegs)
  /\ scanned = NoScan
  /\ newModel = [formats |-> <<>>]
  /\ mergeResult = NoResult
  /\ echoResult = NoResult
  /\ ChunkIdle
  /\ RenderIdle
  /\ AuxIdle

\* getDdsFromSrc(document); scanned is its constant "formats"
Echo ==
  /\ pc = "echo"
  /\ scanned' = getFormatsFromSrc(document)
  /\ echoResult' = getDdsFromSrc(document)
  /\ pc' = "echoed"
  /\ UNCHANGED <<auxVars, document, newModel, mergeResult, chunkVars,
                 renderVars>>

NextEcho == Echo

SpecEcho == InitEcho /\ [][NextEcho]_vars

(***************************************************************************)
(* SpecEchoRegions: getDdsFromSrc on documents of at most MaxDocSegs       *)
(* segments with payload regions in selection-list record formats and in   *)
(* others, one of them closed in column 80 and followed by a control line. *)
(***************************************************************************)
SegComment == <<CommentLine>>

SegWideControl == SegWide \o SegControl

SegSflFormat == SegHeaderSFL \o SegBound

EchoRegionSegs ==
  {SegHeader, SegSflFormat, SegWideControl, SegBound, SegComment, SegBlank}

InitEchoRegions ==
  /\ pc = "echo"
  /\ IsDocOf(document, EchoRegionSegs)
  /\ scanned = NoScan
  /\ newModel = [formats |-> <<>>]
  /\ mergeResult = NoResult
  /\ echoResult = NoResult
  /\ ChunkIdle
  /\ RenderIdle
  /\ AuxIdle

SpecEchoRegions == InitEchoRegions /\ [][NextEcho]_vars

(***************************************************************************)
(* SpecEchoClean: getDdsFromSrc on documents of at most MaxDocSegs lines   *)
(* among which lines of blanks, lines with a control character or with     *)
(* trailing white space, and generated-annotation comments.                *)
(***************************************************************************)
\* a line of blanks only
SegBlanks == <<Rep(" ", 6)>>

\* a comment with a control character in it and blanks after it
SegTabbed == <<CommentLine \o <<"\t", "y", " ", " ">>>>

\* a line with a control character only
SegTab == <<<<"\t">>>>

\* a generated-annotation comment
SegGenerated == <<Rep(" ", 5) \o GENERATED \o <<" ", "x">>>>

EchoCleanSegs ==
  {SegHeader, SegField, SegComment, SegBlank, SegBlanks, SegTabbed, SegTab,
   SegGenerated}

InitEchoClean ==
  /\ pc = "echo"
  /\ IsDocOf(document, EchoCleanSegs)
  /\ scanned = NoScan
  /\ newModel = [formats |-> <<>>]
  /\ mergeResult = NoResult
  /\ echoResult = NoResult
  /\ ChunkIdle
  /\ RenderIdle
  /\ AuxIdle

SpecEchoClean == InitEchoClean /\ [][NextEcho]_vars

(***************************************************************************)
(* SpecBound: getBoundFields on every payload of at most MaxItems items:   *)
(* plain items, items with a binding as a property value, with a binding   *)
(* one level further down, in an array, and with a fieldName of their own. *)
(***************************************************************************)
MaxItems == 3

INNERKEY == <<"i", "n", "n", "e", "r">>

fld1 == <<"f", "l", "d", "1">>

\* {"value":{"inner":{"fieldName":field}}}
NestedItem(field) ==
  JObj(<<VALUEKEY>>,
       <<JObj(<<INNERKEY>>, <<JObj(<<FIELDNAME>>, <<JStr(field)>>)>>)>>)

\* {"value":[{"fieldName":field}]}
ArrayItem(field) ==
  JObj(<<VALUEKEY>>, <<JArr(<<JObj(<<FIELDNAME>>, <<JStr(field)>>)>>)>>)

\* {"fieldName":field}
DirectItem(field) == JObj(<<FIELDNAME>>, <<JStr(field)>>)

BoundItems ==
  {PlainItem(<<"a">>), BoundItem(<<"a">>, FLD1), BoundItem(<<"b">>, fld1),
   NestedItem(FLD2), ArrayItem(FLD2), DirectItem(FLD2)}

InitBound ==
  /\ pc = "bound"
  /\ \E items \in SeqsUpTo(BoundItems, MaxItems) :
       payload = Payload(RECFMT1, items)
  /\ lineTag = <<>>
  /\ rtnLines = <<>>
  /\ boundResult = NoBound
  /\ ProcIdle
  /\ ChunkIdle
  /\ DocIdle
  /\ LoadIdle
  /\ KeywordIdle
  /\ LineIdle
  /\ CallsIdle

\* getBoundFields(payload)
CollectBound ==
  /\ pc = "bound"
  /\ boundResult' = getBoundFields(payload)
  /\ pc' = "collected"
  /\ UNCHANGED <<procVars, source, keywords, srcLine, answers, calls, chunkVars,
                 renderVars, docVars>>

NextBound == CollectBound

SpecBound == InitBound /\ [][NextBound]_vars

(***************************************************************************)
(* SpecScan: getFormatsFromSrc on documents that also hold payload regions *)
(* whose text is no structured data.                                       *)
(***************************************************************************)
\* HTML('{bad') on one line
SegBadSingle == <<WideTagLine(<<"{", "b", "a", "d">>, LineNum1)>>

\* a region of two lines whose text is cut off after 40 characters
SegBadMulti == TagLines(Substr(htmlDataOf(PEmpty), 0, 40), LineNum1)

ScanSegs ==
  {SegHeader, SegField, SegBlank, SegBound, SegBadSingle, SegBadMulti}

InitScan ==
  /\ pc = "scan"
  /\ IsDocOf(document, ScanSegs)
  /\ scanned = NoScan
  /\ newModel = [formats |-> <<>>]
  /\ mergeResult = NoResult
  /\ echoResult = NoResult
  /\ ChunkIdle
  /\ RenderIdle
  /\ AuxIdle

\* getFormatsFromSrc(document)
ScanDocument ==
  /\ pc = "scan"
  /\ scanned' = getFormatsFromSrc(document)
  /\ pc' = "scanDone"
  /\ UNCHANGED <<auxVars, document, newModel, mergeResult, echoResult,
                 chunkVars, renderVars>>

NextScan == ScanDocument

SpecScan == InitScan /\ [][NextScan]_vars

(***************************************************************************)
(* SpecCalls: two getFormatsFromSrc calls in progress, each on its own     *)
(* document of at most MaxCallSegs segments.  The callback of forEach runs *)
(* to its end without a suspension point; the calls here alternate line by *)
(* line, which is more than the event loop lets them do.                   *)
(***************************************************************************)
MaxCallSegs == 2

Callers == {"a", "b"}

Other(who) == IF who = "a" THEN "b" ELSE "a"

CallSegs == {SegHeader, SegBound, SegBadSingle, SegBadMulti}

\* a call that has not yet visited a line
NewCall(doc) ==
  [doc |-> doc, idx |-> 0, st |-> ScanInit, done |-> FALSE,
   result |-> NoScan, interrupted |-> FALSE]

\* the call is between the lines of a payload region
MidRegion(call) ==
  /\ ~call.done
  /\ call.idx > 0
  /\ call.st.isHtmlJsonTag
  /\ ~call.st.rejected

InitCalls ==
  /\ pc = "calls"
  /\ \E da, db \in SeqsUpTo(CallSegs, MaxCallSegs) :
       calls = [who \in Callers |->
                  NewCall(Flatten(IF who = "a" THEN da ELSE db))]
  /\ ChunkIdle
  /\ RenderIdle
  /\ DocIdle
  /\ LoadIdle
  /\ KeywordIdle
  /\ LineIdle
  /\ BoundIdle
  /\ ProcIdle

\* the forEach callback of one call for its next line; interrupted records
\* that the other call was between the lines of a region at that moment
ScanStep(who) ==
  /\ pc = "calls"
  /\ ~calls[who].done
  /\ calls[who].idx < Len(calls[who].doc)
  /\ ~calls[who].st.rejected
  /\ calls' =
       [calls EXCEPT
          ![who].st = ScanLine(CallState(calls, who),
                               calls[who].doc[calls[who].idx + 1]),
          ![who].idx = @ + 1,
          ![Other(who)].interrupted = @ \/ MidRegion(calls[Other(who)])]
  /\ UNCHANGED <<procVars, pc, source, keywords, srcLine, answers, boundResult,
                 chunkVars, renderVars, docVars>>

\* return formats, or the rejection of the catch at line 80
ScanReturn(who) ==
  /\ pc = "calls"
  /\ ~calls[who].done
  /\ calls[who].idx = Len(calls[who].doc) \/ calls[who].st.rejected
  /\ calls' =
       [calls EXCEPT
          ![who].done = TRUE,
          ![who].result =
             [ok |-> ~calls[who].st.rejected,
              formats |-> IF calls[who].st.rejected THEN <<>>
                          ELSE calls[who].st.formats]]
  /\ UNCHANGED <<procVars, pc, source, keywords, srcLine, answers, boundResult,
                 chunkVars, renderVars, docVars>>

NextCalls == \E who \in Callers : ScanStep(who) \/ ScanReturn(who)

SpecCalls == InitCalls /\ [][NextCalls]_vars

(***************************************************************************)
(* SpecLoad: main of ddsToJson on every file of 1..MaxFileLines lines,     *)
(* each with a numeric 12-character prefix, a blank one, or none: the read *)
(* of the source lines, then the rest of main.                             *)
(***************************************************************************)
MaxFileLines == 3

\* source date and sequence number, as the IFS copy of a member carries them
NumericPrefix == <<"0", "0", "0", "1", "0", "0", "2", "1", "0", "1", "0", "1">>

BlankPrefix == Rep(" ", PREFIXLEN)

KeywordLine(kw) == kwdOpen \o kw

\* HTML('{}') on one line: the smallest payload tag
TagLine == WideTagLine(<<"{", "}">>, LineNum1)

FileLines ==
  {NumericPrefix \o HeaderLine(RECFMT1),
   NumericPrefix \o KeywordLine(ALLINONE),
   NumericPrefix \o TagLine,
   BlankPrefix \o FieldLine(FLD1, "H"),
   HeaderLine(RECFMT1),
   KeywordLine(ALLINONE),
   TagLine,
   BlankLine}

InitLoad ==
  /\ pc = "load"
  /\ source \in SeqsUpTo(FileLines, MaxFileLines)
  /\ source # <<>>
  /\ ChunkIdle
  /\ RenderIdle
  /\ DocIdle
  /\ KeywordIdle
  /\ LineIdle
  /\ CallsIdle
  /\ BoundIdle
  /\ ProcIdle

\* main, the stream file branch: readFile, split, strip
ReadFile ==
  /\ pc = "load"
  /\ document' = StripLines(source)
  /\ pc' = "loaded"
  /\ UNCHANGED <<procVars, source, keywords, srcLine, answers, calls,
                 boundResult,
                 scanned, newModel, mergeResult, echoResult, chunkVars,
                 renderVars>>

\* main, the source member branch: readIbmISrcMbr, split
ReadMember ==
  /\ pc = "load"
  /\ document' = source
  /\ pc' = "loaded"
  /\ UNCHANGED <<procVars, source, keywords, srcLine, answers, calls,
                 boundResult,
                 scanned, newModel, mergeResult, echoResult, chunkVars,
                 renderVars>>

\* main of verifyConvert on a stream file, up to the read of ddsToJson: the
\* temporary copy is written when the first line has a prefix, and ddsToJson
\* reads the file it is given
VerifyRead ==
  /\ pc = "load"
  /\ LET origDdsFile ==
           IF ParseIntIsNaN(Substr(source[1], 0, PREFIXLEN)) THEN source
           ELSE StripLines(source)
     IN  document' = StripLines(origDdsFile)
  /\ pc' = "loaded"
  /\ UNCHANGED <<procVars, source, keywords, srcLine, answers, calls,
                 boundResult,
                 scanned, newModel, mergeResult, echoResult, chunkVars,
                 renderVars>>

\* main, after the read: the Rich Display check, the formats, the keywords
\* and, for an all-in-one file, the raw text; a rejection leaves what was
\* computed before it
Convert ==
  /\ pc = "loaded"
  /\ IF ~IsRichDisplay(document)
     THEN /\ pc' = "rejected"
          /\ UNCHANGED <<scanned, keywords, echoResult>>
     ELSE /\ scanned' = getFormatsFromSrc(document)
          /\ keywords' = IF scanned'.ok THEN getKeywordsFromSrc(document)
                         ELSE NoKeywords
          /\ echoResult' = IF IsAllInOne(keywords'.keywords)
                           THEN getDdsFromSrc(document) ELSE NoResult
          /\ pc' = IF scanned'.ok
                      /\ (IsAllInOne(keywords'.keywords) => echoResult'.ok)
                   THEN "converted" ELSE "rejected"
  /\ UNCHANGED <<procVars, source, document, srcLine, answers, calls,
                 boundResult,
                 newModel, mergeResult, chunkVars, renderVars>>

NextLoad == ReadFile \/ ReadMember \/ VerifyRead \/ Convert

SpecLoad == InitLoad /\ [][NextLoad]_vars

(***************************************************************************)
(* SpecKeywords: getKeywordsFromSrc on every document of at most           *)
(* MaxDocSegs lines: keyword lines, comments, a header, lines after it.    *)
(***************************************************************************)
INDARA == <<"I", "N", "D", "A", "R", "A">>

\* a keyword followed by blanks up to column 80
PaddedKeywordLine == PadEnd(KeywordLine(INDARA), LINEWIDTH)

\* a control annotation comment with text in the keyword area
PuiLine ==
  Rep(" ", 5) \o PUICOMMENT \o Rep(" ", 34) \o <<"P", "U", "I", " ", " ">>

KeywordSegs ==
  {<<KeywordLine(ALLINONE)>>, <<PaddedKeywordLine>>, <<PuiLine>>,
   <<CommentLine>>, SegHeader, SegField, <<TagLine>>, SegBlank}

InitKeywords ==
  /\ pc = "keywords"
  /\ IsDocOf(document, KeywordSegs)
  /\ scanned = NoScan
  /\ newModel = [formats |-> <<>>]
  /\ mergeResult = NoResult
  /\ echoResult = NoResult
  /\ ChunkIdle
  /\ RenderIdle
  /\ AuxIdle

\* getKeywordsFromSrc(document)
ScanKeywords ==
  /\ pc = "keywords"
  /\ keywords' = getKeywordsFromSrc(document)
  /\ pc' = "keywordsDone"
  /\ UNCHANGED <<procVars, source, srcLine, answers, calls, boundResult,
                 chunkVars,
                 renderVars, docVars>>

NextKeywords == ScanKeywords

SpecKeywords == InitKeywords /\ [][NextKeywords]_vars

(***************************************************************************)
(* SpecLine: the structural tests on every line that is the beginning, of  *)
(* any length, of a line of the documents above.                           *)
(***************************************************************************)
WholeLines ==
  {HeaderLine(RECFMT1), SegHeaderSFL[1], FieldLine(FLD1, "H"), CommentLine,
   ControlLine, KeywordLine(ALLINONE), SegBound[1], SegBound[3], SegWide[3]}

TestLines == {Substr(l, 0, k) : l \in WholeLines, k \in 0..LINEWIDTH}

InitLine ==
  /\ pc = "line"
  /\ srcLine \in TestLines
  /\ answers = <<>>
  /\ ChunkIdle
  /\ RenderIdle
  /\ DocIdle
  /\ LoadIdle
  /\ KeywordIdle
  /\ CallsIdle
  /\ BoundIdle
  /\ ProcIdle

\* one turn of a loop over the lines: the tests on the line at hand
TestLine ==
  /\ pc = "line"
  /\ answers' = StructuralTests(srcLine)
  /\ pc' = "tested"
  /\ UNCHANGED <<procVars, srcLine, source, keywords, calls, boundResult,
                 chunkVars,
                 renderVars, docVars>>

NextLine == TestLine

SpecLine == InitLine /\ [][NextLine]_vars

(***************************************************************************)
(* Properties of chunkData (SpecChunk).                                    *)
(***************************************************************************)
\* C4 -- Chunk rejoin: once chunkData(S, N) has returned, the chunks
\* concatenated in order are exactly S, also when the quote repair has moved
\* characters from a chunk to the one before it.
ChunkRejoin == pc = "chunked" => Flatten(pushed) = chunkInput

\* chunkData has returned and some chunk is longer than N: the repair has
\* moved a quote into it
ChunkRejoinWitness ==
  /\ pc = "chunked"
  /\ \E i \in 1..Len(pushed) : Len(pushed[i]) > nBytes

\* C5 -- Chunk-repair invariant: once chunkData(S, N) has returned, no chunk
\* other than the first begins with a single quote.
NoChunkBeginsWithQuote ==
  pc = "chunked" =>
    \A i \in 2..Len(pushed) : Substr(pushed[i], 0, 1) # <<"'">>

\* C11 -- Chunk size bound: once chunkData(data, N) has returned, every
\* chunk is at most N characters long, also after the quote repair.
ChunkSizeBound ==
  pc = "chunked" => \A i \in 1..Len(pushed) : Len(pushed[i]) <= nBytes

(***************************************************************************)
(* Properties of the renderer and of render-then-scan (SpecRender).        *)
(***************************************************************************)
\* C1 -- Payload round trip: scanning the lines the renderer produced for a
\* payload P succeeds and yields exactly one payload, equal to P.
RoundTrip ==
  pc = "rescanned" => scanned.ok /\ scanned.formats = <<payload>>

\* C10 -- Closed tag: the last line the renderer returns ends with the
\* closing marker ') and has no continuation character '-' in column 80.
ClosedTag ==
  pc \in {"rendered", "rescanned"} =>
    /\ rtnLines # <<>>
    /\ LET last == rtnLines[Len(rtnLines)]
       IN  /\ SubstrFrom(last, Len(last) - 2) = <<"'", ")">>
           /\ Substr(last, 79, 1) # <<"-">>

\* the text filled its last continuation line to column 79, which therefore
\* carries '-', and the renderer closed the tag on a line of its own
ClosedTagWitness ==
  /\ pc = "rendered"
  /\ Len(rtnLines) > 1
  /\ rtnLines[Len(rtnLines)] = kwdOpen \o <<"'", ")">>
  /\ Substr(rtnLines[Len(rtnLines) - 1], 79, 1) = <<"-">>

(***************************************************************************)
(* Properties of the merge (SpecMerge).                                    *)
(***************************************************************************)
Merged == pc \in {"mergedSame", "mergedNew"}

\* a specification line that opens a payload tag: HTML('{ in column 45
OpensPayload(line) ==
  Substr(line, 5, 2) = SPECLINE /\ Substr(line, 44, 7) = HTMLJSONOPEN

\* line i belongs to a payload region: an opening line at or before it, and
\* every line from there up to line i - 1 flagged as continuing in column 80
InPayloadRegion(lines, i) ==
  \E o \in 1..i :
    /\ OpensPayload(lines[o])
    /\ \A j \in o..(i - 1) : Substr(lines[j], 79, 1) = <<"-">>

\* the lines outside every payload region, in order
RECURSIVE OutsideRegionsFrom(_, _)
OutsideRegionsFrom(lines, i) ==
  IF i > Len(lines) THEN <<>>
  ELSE (IF InPayloadRegion(lines, i) THEN <<>> ELSE <<lines[i]>>)
         \o OutsideRegionsFrom(lines, i + 1)

OutsideRegions(lines) == OutsideRegionsFrom(lines, 1)

\* the record-format name in force at line i: that of the nearest header
\* line before it (<<>> when there is none)
FormatNameAt(lines, i) ==
  LET headers == {h \in 1..(i - 1) : Substr(lines[h], 5, 12) = rcdFmtOpen}
  IN  IF headers = {} THEN <<>>
      ELSE TrimRight(Substr(lines[SetMax(headers)], 18, 10))

\* C2 -- Idempotent merge: merging a document with the payloads the scanner
\* extracted from it succeeds and returns the document, line for line.
IdempotentMerge ==
  pc = "mergedSame" => mergeResult.ok /\ mergeResult.lines = document

\* C3 -- Merge frame: when the merge succeeds, the lines outside payload
\* regions are in the output what they are in the original: the same lines,
\* once each, in the same order.
MergeFrame ==
  (Merged /\ mergeResult.ok) =>
    OutsideRegions(mergeResult.lines) = OutsideRegions(document)

\* C8 -- Missing payload is fatal: when the document has a payload region
\* under a record-format name and the new model has no payload of that name
\* (compared case-insensitively), the merge fails and returns no document.
MissingPayloadIsFatal ==
  (/\ Merged
   /\ \E i \in 1..Len(document) :
        /\ OpensPayload(document[i])
        /\ FormatNameAt(document, i) # <<>>
        /\ \A k \in 1..Len(newModel.formats) :
             FormatNameUpper(newModel.formats[k])
               # ToUpperCase(FormatNameAt(document, i)))
    => ~mergeResult.ok /\ mergeResult.lines = <<>>

\* the document of the scenario: a header line for RECFMT1, a field line and
\* the tag HTML('{"screen":{"record format name":"RECFMT1"},"items":[]}') on
\* one line
ScenarioDoc == SegHeader \o SegField \o SegSingle

\* the scanner's part of the scenario: one payload, named RECFMT1, no items
ScenarioScan ==
  /\ scanned.ok
  /\ Len(scanned.formats) = 1
  /\ JGet(JGet(scanned.formats[1], SCREEN), RECORDFORMATNAME) = JStr(RECFMT1)
  /\ JGet(scanned.formats[1], ITEMS) = JArr(<<>>)

IsHiddenField(line) ==
  Substr(line, 5, 2) = SPECLINE /\ Substr(line, 37, 1) = <<"H">>

FieldNameOf(line) == TrimRight(Substr(line, 18, 10))

\* the index of the nearest record-format header before line i, 0 if none
HeaderBefore(lines, i) ==
  LET headers == {h \in 1..(i - 1) : Substr(lines[h], 5, 12) = rcdFmtOpen}
  IN  IF headers = {} THEN 0 ELSE SetMax(headers)

\* the payload of the record format line i stands in: the first scanned
\* payload of that name (JUndefined when there is none)
PayloadAt(lines, i) == FirstFormat(scanned.formats, FormatNameAt(lines, i)).obj

\* the field names a payload binds: the upper-cased fieldName of every
\* object that is the value of a property of one of its items
BoundNames(P) ==
  LET items == JGet(P, ITEMS).m
  IN  UNION {{ToUpperCase(JGet(items[i].m[j], FIELDNAME).s) :
                j \in {k \in 1..Len(items[i].m) :
                         /\ items[i].m[k].t = "obj"
                         /\ JGet(items[i].m[k], FIELDNAME).t = "str"}} :
             i \in 1..Len(items)}

Count(lines, line) == Cardinality({i \in 1..Len(lines) : lines[i] = line})

\* the record format of line i is not a selection list, and a payload tag
\* opens between its header and line i
AfterPayloadTag(lines, i) ==
  /\ HeaderBefore(lines, i) # 0
  /\ Trim(Substr(lines[HeaderBefore(lines, i)], 44, 36)) # SFL
  /\ \E o \in (HeaderBefore(lines, i) + 1)..(i - 1) : OpensPayload(lines[o])

RECURSIVE ReachedFrom(_, _, _, _, _)
ReachedFrom(lines, srcIdx, isSFL, fmt, skipped) ==
  IF srcIdx >= Len(lines) THEN {}
  ELSE
    LET line  == lines[srcIdx + 1]
        isHdr == Substr(line, 5, 12) = rcdFmtOpen
        sfl   == IF isHdr THEN Trim(Substr(line, 44, 36)) = SFL ELSE isSFL
        name  == IF isHdr THEN TrimRight(Substr(line, 18, 10)) ELSE fmt
        skip  == IF isHdr THEN FALSE ELSE skipped
    IN  IF Substr(line, 5, 2) = SPECLINE
           /\ Substr(line, 44, 10) = HTMLCONTROLOPEN
        THEN ReachedFrom(lines, ControlEnd(lines, srcIdx).end + 1, sfl, name,
                         skip)
        ELSE IF ~sfl /\ OpensPayload(line)
        THEN ReachedFrom(lines, EchoRegionEnd(lines, srcIdx).end + 1, sfl,
                         name, TRUE)
        ELSE {[idx |-> srcIdx + 1, fmt |-> name, skipped |-> skip]}
               \cup ReachedFrom(lines, srcIdx + 1, sfl, name, skip)

Reached(lines) == ReachedFrom(lines, 0, FALSE, NoRcdFmt, FALSE)

ScannerSoftFailure ==
  pc = "scanDone" =>
    /\ scanned.ok
    /\ \A k \in 1..Len(scanned.formats) : scanned.formats[k] = PBound

(***************************************************************************)
(* Properties of the read of the source lines (SpecLoad).                  *)
(***************************************************************************)
\* C12 -- Prefix is document-wide: once the lines of a file are loaded,
\* either no line of the file was changed or every line was shortened by its
\* first 12 characters; never a mix of stripped and unstripped lines.
PrefixDocumentWide ==
  pc = "loaded" =>
    \/ document = source
    \/ document = [i \in 1..Len(source) |-> SubstrFrom(source[i], PREFIXLEN)]

(***************************************************************************)
(* Properties of the structural tests (SpecLine).                          *)
(***************************************************************************)
\* C13 -- Line length is never special-cased: each structural test applied
\* to a line shorter than 80 characters gives the answer it gives for the
\* same line right-padded with blanks to 80 columns.
ShortLineAsPadded ==
  pc = "tested" /\ Len(srcLine) < LINEWIDTH =>
    answers = StructuralTests(PadEnd(srcLine, LINEWIDTH))

(***************************************************************************)
(* Properties of the keyword scan (SpecKeywords).                          *)
(***************************************************************************)
\* a specification line with R in column 17
IsHeaderLine(line) ==
  Len(line) >= 17 /\ line[6] = "A" /\ line[7] = " " /\ line[17] = "R"

\* the 1-based index of the first header line, Len + 1 when there is none
FirstHeader(lines) ==
  SetMin({i \in 1..Len(lines) : IsHeaderLine(lines[i])} \cup {Len(lines) + 1})

\* columns 45-80 of a line without their trailing white space
AreaOf(line) ==
  LET last == SetMax({j \in 45..Min(Len(line), LINEWIDTH) :
                        line[j] \notin WhiteSpace} \cup {44})
  IN  [j \in 1..(last - 44) |-> line[44 + j]]

\* the entries from the k-th on are the non-empty areas of lines i..h-1 of
\* the document, taken in order
RECURSIVE EntriesFrom(_, _, _, _, _)
EntriesFrom(kwds, k, lines, i, h) ==
  IF k > Len(kwds) THEN TRUE
  ELSE IF i >= h THEN FALSE
  ELSE IF kwds[k] # <<>> /\ kwds[k] = AreaOf(lines[i])
  THEN EntriesFrom(kwds, k + 1, lines, i + 1, h)
  ELSE EntriesFrom(kwds, k, lines, i + 1, h)

\* C14 -- Keyword scan stops at the first header: every entry of the list
\* getKeywordsFromSrc returns is the right-trimmed, non-empty keyword area
\* of a line before the first record-format header line, the entries are in
\* document order, and no line from the first header on contributes one.
KeywordsBeforeFirstHeader ==
  pc = "keywordsDone" =>
    /\ keywords.ok
    /\ EntriesFrom(keywords.keywords, 1, document, 1, FirstHeader(document))

\* a keyword line, then the header, then a line with text in its keyword
\* area: one entry is returned
KeywordsBeforeFirstHeaderWitness ==
  /\ pc = "keywordsDone"
  /\ Len(keywords.keywords) = 1
  /\ \E i, j \in 1..Len(document) :
       /\ i < j
       /\ IsHeaderLine(document[i])
       /\ AreaOf(document[j]) # <<>>
       /\ document[j][6] = "A"

(***************************************************************************)
(* Properties of the echo of payload regions (SpecEchoRegions).            *)
(***************************************************************************)
\* line i stands in a record format whose header keyword area is SFL
InSflFormat(lines, i) ==
  /\ HeaderBefore(lines, i) # 0
  /\ Trim(Substr(lines[HeaderBefore(lines, i)], 44, 36)) = SFL

\* line i is a payload region line of a record format with a header
RegionLine(lines, i) ==
  HeaderBefore(lines, i) # 0 /\ InPayloadRegion(lines, i)

\* C15 -- Payload lines in the echo: when the Raw-Text Assembler returns an
\* echo, no payload region line of a record format whose header keyword area
\* is not SFL is in it, and every payload region line of a record format
\* whose header keyword area is SFL is: the echo holds as many copies of a
\* payload region line as the record formats with SFL hold.
PayloadLinesInEcho ==
  (pc = "echoed" /\ echoResult.ok) =>
    \A i \in 1..Len(document) :
      RegionLine(document, i) =>
        Count(echoResult.lines, CleanLine(document[i]))
          = Cardinality({j \in 1..Len(document) :
               /\ document[j] = document[i]
               /\ RegionLine(document, j)
               /\ InSflFormat(document, j)})

(***************************************************************************)
(* Properties of the lines of the echo (SpecEchoClean).                    *)
(***************************************************************************)
\* a line with no character other than white space
IsBlank(line) == \A j \in 1..Len(line) : line[j] \in WhiteSpace

\* a generated-annotation comment: A*%% in columns 6-9
IsGenerated(line) ==
  Len(line) >= 9 /\ <<line[6], line[7], line[8], line[9]>> = GENERATED

\* C16 -- Echo lines are cleaned content lines: every line of the echo is
\* non-blank, is no generated-annotation comment, holds no control character
\* and ends with no white space; and every line of the document that is
\* non-blank, no generated annotation and not removed by the control-section,
\* payload or bound-field rules is in the echo in its cleaned form.
EchoLinesAreClean ==
  (pc = "echoed" /\ echoResult.ok) =>
    /\ \A k \in 1..Len(echoResult.lines) :
         LET out == echoResult.lines[k]
         IN  /\ ~IsBlank(out)
             /\ ~IsGenerated(out)
             /\ \A j \in 1..Len(out) : out[j] \notin ControlChars
             /\ out[Len(out)] \notin WhiteSpace
    /\ \A r \in Reached(document) :
         LET line == document[r.idx]
         IN  (~IsBlank(line) /\ ~IsGenerated(line) /\ ~IsHiddenField(line))
               => \E k \in 1..Len(echoResult.lines) :
                    echoResult.lines[k] = CleanLine(line)

(***************************************************************************)
(* Properties of the bound-field set (SpecBound).                          *)
(***************************************************************************)
\* the upper-cased values of the fieldName attributes of a tree, at any depth
RECURSIVE AllFieldNames(_)
AllFieldNames(v) ==
  IF v.t = "obj"
  THEN UNION {IF v.k[j] = FIELDNAME /\ v.m[j].t = "str"
              THEN {ToUpperCase(v.m[j].s)}
              ELSE AllFieldNames(v.m[j]) : j \in 1..Len(v.m)}
  ELSE IF v.t = "arr"
  THEN UNION {AllFieldNames(v.m[j]) : j \in 1..Len(v.m)}
  ELSE {}

\* C17 -- Bound-field set is recursive: the set getBoundFields computes for
\* a payload is the set of the upper-cased values of every fieldName
\* attribute of the payload tree, at any nesting depth.
BoundFieldsRecursive ==
  pc = "collected" =>
    /\ boundResult.ok
    /\ {boundResult.fields[k] : k \in 1..Len(boundResult.fields)}
         = AllFieldNames(payload)

(***************************************************************************)
(* Properties of concurrent scans (SpecCalls).                             *)
(***************************************************************************)
\* C18 -- No shared scan state: whatever the order in which the steps of two
\* getFormatsFromSrc calls are taken, each call returns what the scan of its
\* document alone returns, and two calls on the same document return equal
\* results.
NoSharedScanState ==
  pc = "calls" =>
    /\ \A who \in Callers :
         calls[who].done =>
           calls[who].result = getFormatsFromSrc(calls[who].doc)
    /\ (calls["a"].done /\ calls["b"].done /\ calls["a"].doc = calls["b"].doc)
         => calls["a"].result = calls["b"].result

\* both calls have returned a payload, and each of them took a step while
\* the other was between the lines of a region
NoSharedScanStateWitness ==
  /\ pc = "calls"
  /\ \A who \in Callers :
       /\ calls[who].done
       /\ calls[who].interrupted
       /\ calls[who].result.ok
       /\ Len(calls[who].result.formats) = 1

(***************************************************************************)
(* Properties of the physical lines of the renderer (SpecRender).          *)
(***************************************************************************)
\* the line ends with the continuation flag (a line closed with the closing
\* marker ends with a parenthesis)
EndsWithFlag(line) == line # <<>> /\ line[Len(line)] = "-"

\* the line of the blank keyword-area prefix and the closing marker alone
ClosingLine == kwdOpen \o <<"'", ")">>

\* C19 -- Continuation flag position: every line the renderer closes with
\* the continuation flag is exactly 80 characters long, with '-' in column
\* 80 and payload text in every column of its content area through column
\* 79.
ContinuationFlagPosition ==
  pc = "rendered" =>
    \A k \in 1..Len(rtnLines) :
      EndsWithFlag(rtnLines[k]) => Len(rtnLines[k]) = LINEWIDTH

\* C20 -- Exact-fit closing line: a line closed with the continuation flag
\* is never the last line written for a chunk: it is followed by a line of
\* more text or by the one line made of the blank keyword-area prefix and
\* the closing marker; and that line is written only there, never after a
\* line that already ends with the closing marker.
ExactFitClosingLine ==
  pc = "rendered" =>
    \A k \in 1..Len(rtnLines) :
      /\ EndsWithFlag(rtnLines[k]) =>
           /\ k < Len(rtnLines)
           /\ Substr(rtnLines[k + 1], 0, Len(kwdOpen)) = kwdOpen
      /\ rtnLines[k] = ClosingLine =>
           /\ k > 1
           /\ EndsWithFlag(rtnLines[k - 1])
           /\ Len(rtnLines[k - 1]) > Len(kwdOpen) + 1

\* the text filled the opening line exactly, to column 79: the renderer
\* flagged it and wrote the closing line after it
ExactFitClosingLineWitness ==
  /\ pc = "rendered"
  /\ Len(rtnLines) = 2
  /\ Len(rtnLines[1]) = LINEWIDTH
  /\ EndsWithFlag(rtnLines[1])
  /\ rtnLines[2] = ClosingLine

\* ---------------------------------------------------------------------
\* Region end of the merge engine
\* ---------------------------------------------------------------------

\* the 0-based index of the first line at or after the opening line start
\* whose column 80 is not '-' and that is the last line or is followed by a
\* line that opens no payload tag; Len(lines) when there is none
StatedRegionEnd(lines, start) ==
  LET last == Len(lines) - 1
      ends == {j \in start..last :
                 /\ Substr(lines[j + 1], 79, 1) # <<"-">>
                 /\ j = last \/ ~OpensPayload(lines[j + 2])}
  IN  IF ends = {} THEN Len(lines) ELSE SetMin(ends)

\* the merged document when every region ends at StatedRegionEnd
RECURSIVE StatedMergeFrom(_, _, _, _, _)
StatedMergeFrom(formats, lines, srcIdx, rcdFmt, ddsLines) ==
  IF srcIdx >= Len(lines) THEN ddsLines
  ELSE
    LET origSrcLine == lines[srcIdx + 1]
    IN  IF Substr(origSrcLine, 5, 12) = rcdFmtOpen
        THEN StatedMergeFrom(formats, lines, srcIdx + 1,
                             ToUpperCase(TrimRight(Substr(origSrcLine, 18, 10))),
                             Append(ddsLines, origSrcLine))
        ELSE IF OpensPayload(origSrcLine)
        THEN StatedMergeFrom(formats, lines,
                             StatedRegionEnd(lines, srcIdx) + 1, rcdFmt,
                             ddsLines \o RenderFormat(formats, rcdFmt,
                                                      origSrcLine).lines)
        ELSE StatedMergeFrom(formats, lines, srcIdx + 1, rcdFmt,
                             Append(ddsLines, origSrcLine))

\* C21 -- Region end rule: when the merge succeeds, the region replaced for
\* each payload opening line ends at the first line at or after it whose
\* column 80 is not '-' and that is the last line or is followed by a line
\* that opens no new payload tag; the lines after that line are not part of
\* the replaced region, so the output is the document with exactly these
\* regions replaced by the rendering of their record format.
RegionEndRule ==
  (Merged /\ mergeResult.ok) =>
    mergeResult.lines
      = StatedMergeFrom(newModel.formats, document, 0, NoRcdFmt, <<>>)

\* ---------------------------------------------------------------------
\* Trailing blanks of the chunks
\* ---------------------------------------------------------------------

\* the string holds nothing but spaces (the empty string holds none)
OnlySpaces(s) == \A j \in 1..Len(s) : s[j] = " "

\* C22 -- Trailing-space rule of the chunker: once chunkData(S, N) has
\* returned, no chunk other than the last ends with a space character,
\* unless that chunk consists only of spaces.
NoTrailingSpace ==
  pc = "chunked" =>
    \A i \in 1..(Len(pushed) - 1) :
      (pushed[i] # <<>> /\ pushed[i][Len(pushed[i])] = " ")
        => OnlySpaces(pushed[i])

\* chunkData has returned, and a chunk that is not the last was cut short of
\* N characters because the candidate ended with spaces: the spaces open the
\* next chunk
NoTrailingSpaceWitness ==
  /\ pc = "chunked"
  /\ \E i \in 1..(Len(pushed) - 1) :
       /\ pushed[i] # <<>>
       /\ Len(pushed[i]) < nBytes
       /\ pushed[i][Len(pushed[i])] = "x"
       /\ Substr(pushed[i + 1], 0, 1) = <<" ">>

\* ---------------------------------------------------------------------
\* Payloads of the same record format in the new model
\* ---------------------------------------------------------------------

\* the formats list without the payloads whose record format name, compared
\* in upper case, is that of a payload before them
RECURSIVE WithoutDuplicates(_, _)
WithoutDuplicates(formats, i) ==
  IF i > Len(formats) THEN <<>>
  ELSE (IF \E j \in 1..(i - 1) :
             FormatNameUpper(formats[j]) = FormatNameUpper(formats[i])
        THEN <<>> ELSE <<formats[i]>>)
         \o WithoutDuplicates(formats, i + 1)

\* two payloads of the model have the same record format name in upper case
HasDuplicates(formats) ==
  \E i, j \in 1..Len(formats) :
    i < j /\ FormatNameUpper(formats[i]) = FormatNameUpper(formats[j])

\* C23 -- First match wins: when the new model holds several payloads with
\* the same record format name (compared case-insensitively), the merge
\* gives what it gives for the model without the later duplicates: every
\* payload region of that record format gets the payload that comes first
\* in the formats list.
FirstMatchWins ==
  (Merged /\ HasDuplicates(newModel.formats)) =>
    mergeResult
      = conversionV1([formats |-> WithoutDuplicates(newModel.formats, 1)],
                     document)

\* a merge with a model of two different payloads of one record format has
\* succeeded and a payload region was rendered from the first of them
FirstMatchWinsWitness ==
  /\ Merged
  /\ mergeResult.ok
  /\ HasDuplicates(newModel.formats)
  /\ newModel.formats[1] # newModel.formats[2]
  /\ \E i \in 1..Len(mergeResult.lines) :
       \E r \in 1..Len(htmlObjToDdsLines(newModel.formats[1], LineNum1).lines) :
         /\ OpensPayload(mergeResult.lines[i])
         /\ mergeResult.lines[i]
              = htmlObjToDdsLines(newModel.formats[1], LineNum1).lines[r]

\* ---------------------------------------------------------------------
\* Width of the rendered lines
\* ---------------------------------------------------------------------

\* display-line-number tags of 0, 1, 2 and 3 characters
ShortTags == {<<>>, <<"1">>, <<"1", "2">>, LineNum12}

InitRenderTags ==
  /\ pc = "render"
  /\ payload \in {SmallPayload(n) : n \in 0..MaxPad}
                   \cup {PayloadOfText(Rep("x", n)) : n \in 0..MaxPad}
  /\ lineTag \in ShortTags
  /\ rtnLines = <<>>
  /\ ChunkIdle
  /\ DocIdle
  /\ AuxIdle

SpecRenderTags == InitRenderTags /\ [][NextRender]_vars

\* C24 -- Rendered line width: for every payload and every display-line-
\* number tag of at most 3 characters, every physical line the renderer
\* returns is at most 80 characters long.
RenderedLineWidth ==
  pc \in {"rendered", "rescanned"} =>
    \A i \in 1..Len(rtnLines) : Len(rtnLines[i]) <= LINEWIDTH

\* a payload was rendered with a tag shorter than 3 characters on a flagged
\* opening line, a flagged continuation line and a closing line, the flagged
\* ones 80 characters wide
RenderedLineWidthWitness ==
  /\ pc = "rendered"
  /\ Len(lineTag) < 3
  /\ Len(rtnLines) >= 3
  /\ Len(rtnLines[1]) = LINEWIDTH
  /\ Len(rtnLines[2]) = LINEWIDTH

\* ---------------------------------------------------------------------
\* The text carried by the rendered lines
\* ---------------------------------------------------------------------

MaxHead == 30

\* the length of {"screen":{"record format name":"RECFMT1"},"items":[{"id":"
\* (the serialization ends with the four characters "}]} after the text)
TextOffset == Len(htmlDataOf(PayloadOfText(<<>>))) - 4

\* payloads of two chunks and more: the text fills the first chunk, goes on
\* with k letters and then with blanks up to the end of the second chunk
\* candidate and beyond
GapPayload(k) ==
  PayloadOfText(Rep("x", ChunkBytes - TextOffset) \o Rep("y", k)
                  \o Rep(" ", ChunkBytes) \o <<"z">>)

InitRenderGaps ==
  /\ pc = "render"
  /\ payload \in {GapPayload(k) : k \in 0..MaxHead}
  /\ lineTag \in {LineNum1, LineNum12}
  /\ rtnLines = <<>>
  /\ ChunkIdle
  /\ DocIdle
  /\ AuxIdle

SpecRenderGaps == InitRenderGaps /\ [][Render]_vars

\* the payload text of a rendered line: what stands after the open marker
\* (column 51 on) or after the blank prefix (column 45 on) and before the
\* continuation flag or the closing marker
CarriedText(line) ==
  LET body == IF Substr(line, 44, 6) = HTMLOPEN THEN SubstrFrom(line, 50)
              ELSE SubstrFrom(line, 44)
  IN  IF body # <<>> /\ body[Len(body)] = "-"
      THEN Substr(body, 0, Len(body) - 1)
      ELSE Substr(body, 0, Max(Len(body) - 2, 0))

\* the texts carried by the lines lo..hi, concatenated in order
RECURSIVE CarriedFrom(_, _, _)
CarriedFrom(lines, lo, hi) ==
  IF lo > hi THEN <<>>
  ELSE IF lo = hi THEN CarriedText(lines[lo])
  ELSE LET mid == (lo + hi) \div 2
       IN  CarriedFrom(lines, lo, mid) \o CarriedFrom(lines, mid + 1, hi)

\* C25 -- Rendering omits nothing: the payload texts carried by the lines
\* the renderer returns, concatenated in order, are the complete escaped
\* serialization of the payload; no chunk of chunkData is left out, a
\* chunk shorter than one line that is not the last one included.
RenderOmitsNothing ==
  pc = "rendered" =>
    CarriedFrom(rtnLines, 1, Len(rtnLines)) = htmlDataOf(payload)

\* ---------------------------------------------------------------------
\* Payload regions written as several tags
\* ---------------------------------------------------------------------

\* {"screen":{"record format name":"RECFMT1"},"items":[{"id":"a"}]}
PSplit == PayloadOfText(<<"a">>)

\* the region of PSplit as two tags, the text cut after cut characters: the
\* lines the renderer writes for two chunks
SplitRegion(cut) ==
  TagLines(Substr(htmlDataOf(PSplit), 0, cut), LineNum1)
    \o TagLines(SubstrFrom(htmlDataOf(PSplit), cut), LineNum1)

\* cut before ,"items": the second tag is HTML(',"items":[{"id":"a"}]}')
SegChunked == SplitRegion(42)

\* cut before {"id": the second tag is HTML('{"id":"a"}]}')
SegSplit == SplitRegion(TextOffset - 7)

SplitSegs == {SegHeader, SegBlank, SegBound, SegChunked, SegSplit}

InitScanSplit ==
  /\ pc = "scan"
  /\ IsDocOf(document, SplitSegs)
  /\ scanned = NoScan
  /\ newModel = [formats |-> <<>>]
  /\ mergeResult = NoResult
  /\ echoResult = NoResult
  /\ ChunkIdle
  /\ RenderIdle
  /\ AuxIdle

SpecScanSplit == InitScanSplit /\ [][NextScan]_vars

\* the payload regions of a document of SplitSegs: each begins with a
\* flagged opening line, and no other line of it is one
RegionCount(lines) ==
  Cardinality({i \in 1..Len(lines) :
                 OpensPayload(lines[i]) /\ Substr(lines[i], 79, 1) = <<"-">>})

\* C26 -- One payload per region: the scan of a document whose payload
\* regions are all well formed returns one payload for each region; the
\* closing line of a region, once it has completed the payload, is not
\* taken again as the opening line of a further payload, also when it
\* starts with HTML('{.
OnePayloadPerRegion ==
  pc = "scanDone" =>
    /\ scanned.ok
    /\ Len(scanned.formats) = RegionCount(document)

\* ---------------------------------------------------------------------
\* Regions after a malformed region
\* ---------------------------------------------------------------------

\* the well-formed payload regions of a document of ScanSegs: the three
\* lines of SegBound
WellFormedRegions(lines) ==
  {i \in 1..(Len(lines) - 2) : SubSeq(lines, i, i + 2) = SegBound}

\* C27 -- A malformed payload is contained: when the scan returns, every
\* well-formed payload region of the document has given its payload, also
\* the regions that follow a multi-line region whose text never parses; the
\* text accumulated for the malformed region does not swallow the lines of
\* later record formats.
MalformedRegionContained ==
  (pc = "scanDone" /\ scanned.ok) =>
    Len(SelectSeq(scanned.formats, LAMBDA f : f = PBound))
      = Cardinality(WellFormedRegions(document))

\* ---------------------------------------------------------------------
\* Totality of the echo
\* ---------------------------------------------------------------------

\* C28 -- The Raw-Text Assembler is total: for every document whose payloads
\* all parse, getDdsFromSrc returns an echo and does not fail, also when the
\* closing line of a payload region is the last line of the document.
EchoIsTotal ==
  (pc = "echoed" /\ scanned.ok) => echoResult.ok

\* ---------------------------------------------------------------------
\* convert() of ddsToJson and of jsonToDds: the module-level state
\* ---------------------------------------------------------------------

\* Node's path module (POSIX) on the names used here
LastIndexOfChar(s, c) ==
  LET hits == {j \in 1..Len(s) : s[j] = c}
  IN  IF hits = {} THEN 0 ELSE SetMax(hits)

\* parse(p).dir: '' when the name has no directory part
PathDir(p) ==
  LET k == LastIndexOfChar(p, "/")
  IN  IF k = 0 THEN <<>> ELSE IF k = 1 THEN <<"/">> ELSE SubSeq(p, 1, k - 1)

\* parse(p).base
PathBase(p) == SubstrFrom(p, LastIndexOfChar(p, "/"))

\* parse(p).name: the base without its extension
PathName(p) ==
  LET k == LastIndexOfChar(PathBase(p), ".")
  IN  IF k <= 1 THEN PathBase(p) ELSE SubSeq(PathBase(p), 1, k - 1)

\* the working directory of the process
CWD == <<"/", "w">>

\* resolve(dir)
PathResolve(dir) ==
  IF Substr(dir, 0, 1) = <<"/">> THEN dir ELSE CWD \o <<"/">> \o dir

\* format({ dir, base })
PathFormat(dir, base) ==
  IF dir = <<"/">> THEN dir \o base ELSE dir \o <<"/">> \o base

JSONEXT == <<".", "j", "s", "o", "n">>

DSPFEXT == <<".", "d", "s", "p", "f">>

\* the file system and the IBM i objects the calls find
DirO == <<"/", "o">>

DirD == <<"/", "d">>

DirT == <<"/", "t">>

FileA == DirD \o <<"/", "a", ".", "d", "d", "s">>

FileB == DirD \o <<"/", "b", ".", "d", "d", "s">>

FileC == DirD \o <<"/", "c", ".", "d", "d", "s">>

JsonA == DirO \o <<"/", "a">> \o JSONEXT

Directories == {DirO, DirD}

StreamFiles == {FileA, FileB}

JsonFiles == {JsonA}

SourceFiles == {<<<<"Q", "S", "R", "C">>, <<"L">>>>}

Members == {<<<<"Q", "S", "R", "C">>, <<"L">>, <<"M", "1">>>>}

\* process.env.JSON_TO_DDS_ORIGINAL_DDS_FILE and the srcFilOrig, srcLibOrig,
\* srcMbrOrig a jsonToDds call is given
ORIGINALDDSFILE == FileA

OrigMember == <<<<"Q", "S", "R", "C">>, <<"L">>, <<"M", "1">>>>

\* the arguments of the calls: first is outDir (ddsToJson) or inJson
\* (jsonToDds)
Args(tool, first, srcFile, srcLib, srcMbr) ==
  [tool |-> tool, first |-> first, srcFile |-> srcFile, srcLib |-> srcLib,
   srcMbr |-> srcMbr]

ConvertArgs ==
  {Args("ddsToJson", DirO, FileA, UNDEFINED, UNDEFINED),
   Args("ddsToJson", DirO, FileB, UNDEFINED, UNDEFINED),
   Args("ddsToJson", DirO, <<"q", "s", "r", "c">>, <<"l">>, <<"m", "1">>),
   Args("jsonToDds", JsonA, FileC, UNDEFINED, UNDEFINED),
   Args("jsonToDds", JsonA, <<"q", "s", "r", "c">>, <<"l">>, <<"m", "2">>)}

\* a call that has not started: at is the await the call is suspended at;
\* validatedAs, readAs, wroteAs are the branches on isDdsFile it has taken;
\* wrote is the file it has written and result the name it has returned
NewConversion(args) ==
  [args |-> args, srcFile |-> args.srcFile, srcLib |-> args.srcLib,
   srcMbr |-> args.srcMbr, at |-> "idle", validatedAs |-> "none",
   readAs |-> "none", wroteAs |-> "none", wrote |-> UNDEFINED,
   result |-> UNDEFINED]

InitConvert ==
  /\ pc = "convert"
  /\ ModuleLoaded
  /\ \E a, b \in ConvertArgs :
       conversions = [who \in Callers |->
                        NewConversion(IF who = "a" THEN a ELSE b)]
  /\ ChunkIdle
  /\ RenderIdle
  /\ DocIdle
  /\ LoadIdle
  /\ KeywordIdle
  /\ LineIdle
  /\ CallsIdle
  /\ BoundIdle

unchangedByConvert ==
  <<pc, chunkVars, renderVars, docVars, source, keywords, srcLine, answers,
    calls, boundResult>>

IsMember(fil, lib, mbr) == <<fil, lib, mbr>> \in Members

Branch(tool) == IF isDdsFile[tool] THEN "member" ELSE "path"

\* main of either module up to its first await: the name is classified and
\* the module-level flag is set, never cleared
Begin(who) ==
  LET c == conversions[who]
      noDir == PathDir(c.srcFile) = <<>>
      Upper(s) == IF s = UNDEFINED THEN s ELSE ToUpperCase(s)
  IN  /\ c.at = "idle"
      /\ isDdsFile' = IF noDir THEN [isDdsFile EXCEPT ![c.args.tool] = TRUE]
                      ELSE isDdsFile
      /\ conversions' =
           [conversions EXCEPT ![who] =
              [c EXCEPT !.srcFile = IF noDir THEN ToUpperCase(@) ELSE @,
                        !.srcLib = IF noDir THEN Upper(@) ELSE @,
                        !.srcMbr = IF noDir THEN Upper(@) ELSE @,
                        !.at = IF c.args.tool = "ddsToJson" THEN "statOutDir"
                               ELSE "readJson"]]
      /\ UNCHANGED <<outFileName, unchangedByConvert>>

\* the checks of the file argument that both validateParameters make once
\* their first await has returned: ok is FALSE when an error message is set
FileArgument(c) ==
  IF ~isDdsFile[c.args.tool]
  THEN [ok |-> c.srcLib = UNDEFINED /\ c.srcMbr = UNDEFINED,
        at |-> IF c.args.tool = "ddsToJson" THEN "statFile" ELSE "statDir"]
  ELSE [ok |-> c.srcLib # UNDEFINED /\ c.srcMbr # UNDEFINED, at |-> "member"]

\* validateParameters of ddsToJson from the return of stat(outDir) to the
\* await on the input file
ValidateInput(who) ==
  LET c == conversions[who]
      ok == c.args.first \in Directories /\ FileArgument(c).ok
  IN  /\ c.at = "statOutDir"
      /\ conversions' =
           [conversions EXCEPT ![who] =
              [c EXCEPT !.validatedAs = IF c.args.first \in Directories
                                        THEN Branch(c.args.tool) ELSE @,
                        !.at = IF ok THEN FileArgument(c).at
                               ELSE "rejected"]]
      /\ UNCHANGED <<isDdsFile, outFileName, unchangedByConvert>>

\* validateParameters of ddsToJson from the checks of the input file to the
\* await on the open of the output file
NameOutput(who) ==
  LET c == conversions[who]
      found == \/ c.at = "statFile" /\ c.srcFile \in StreamFiles
               \/ c.at = "member" /\ IsMember(c.srcFile, c.srcLib, c.srcMbr)
      base == (IF isDdsFile[c.args.tool] THEN c.srcMbr
               ELSE PathName(c.srcFile)) \o JSONEXT
  IN  /\ c.args.tool = "ddsToJson"
      /\ c.at \in {"statFile", "member"}
      /\ outFileName' = IF found
                        THEN PathFormat(PathResolve(c.args.first), base)
                        ELSE outFileName
      /\ conversions' =
           [conversions EXCEPT ![who].at = IF found THEN "open"
                                           ELSE "rejected"]
      /\ UNCHANGED <<isDdsFile, unchangedByConvert>>

\* main of ddsToJson from the return of validateParameters to the await on
\* the read
ReadSource(who) ==
  LET c == conversions[who]
  IN  /\ c.at = "open"
      /\ conversions' =
           [conversions EXCEPT ![who] =
              [c EXCEPT !.readAs = Branch(c.args.tool),
                        !.at = IF isDdsFile[c.args.tool] THEN "readMember"
                               ELSE "readFile"]]
      /\ UNCHANGED <<isDdsFile, outFileName, unchangedByConvert>>

\* main of ddsToJson from the return of the read to the awaits on the member
\* text and on the three extractions
ExtractSource(who) ==
  LET c == conversions[who]
      isRead == \/ c.at = "readFile" /\ c.srcFile \in StreamFiles
                \/ c.at = "readMember"
                     /\ IsMember(c.srcFile, c.srcLib, c.srcMbr)
      hasText == isDdsFile[c.args.tool]
                   => IsMember(c.srcFile, c.srcLib, c.srcMbr)
  IN  /\ c.at \in {"readFile", "readMember"}
      /\ conversions' =
           [conversions EXCEPT ![who].at = IF isRead /\ hasText THEN "extract"
                                           ELSE "rejected"]
      /\ UNCHANGED <<isDdsFile, outFileName, unchangedByConvert>>

\* main of ddsToJson: writeFile(outFileName, ...) is called
WriteJson(who) ==
  LET c == conversions[who]
  IN  /\ c.at = "extract"
      /\ conversions' =
           [conversions EXCEPT ![who] =
              [c EXCEPT !.wrote = outFileName, !.at = "writeFile"]]
      /\ UNCHANGED <<isDdsFile, outFileName, unchangedByConvert>>

\* main of ddsToJson: return outFileName
ReturnJson(who) ==
  LET c == conversions[who]
  IN  /\ c.at = "writeFile"
      /\ conversions' =
           [conversions EXCEPT ![who] =
              [c EXCEPT !.result = outFileName, !.at = "done"]]
      /\ UNCHANGED <<isDdsFile, outFileName, unchangedByConvert>>

\* validateParameters of jsonToDds from the return of readFile(inJsonFile)
\* to the await on the output file
ValidateOutput(who) ==
  LET c == conversions[who]
      ok == c.args.first \in JsonFiles /\ FileArgument(c).ok
  IN  /\ c.at = "readJson"
      /\ conversions' =
           [conversions EXCEPT ![who] =
              [c EXCEPT !.validatedAs = IF c.args.first \in JsonFiles
                                        THEN Branch(c.args.tool) ELSE @,
                        !.at = IF ok THEN FileArgument(c).at
                               ELSE "rejected"]]
      /\ UNCHANGED <<isDdsFile, outFileName, unchangedByConvert>>

\* jsonToDds from the checks of the output file to the await on the read of
\* the original document
ReadOriginal(who) ==
  LET c == conversions[who]
      free == \/ c.at = "statDir" /\ PathDir(c.srcFile) \in Directories
              \/ /\ c.at = "member"
                 /\ <<c.srcFile, c.srcLib>> \in SourceFiles
                 /\ ~IsMember(c.srcFile, c.srcLib, c.srcMbr)
  IN  /\ c.args.tool = "jsonToDds"
      /\ c.at \in {"statDir", "member"}
      /\ conversions' =
           [conversions EXCEPT ![who] =
              [c EXCEPT !.readAs = IF free THEN Branch(c.args.tool) ELSE @,
                        !.at = IF ~free THEN "rejected"
                               ELSE IF isDdsFile[c.args.tool]
                               THEN "readOrigMember" ELSE "readOrigFile"]]
      /\ UNCHANGED <<isDdsFile, outFileName, unchangedByConvert>>

\* main of jsonToDds from the return of the read to the await on
\* conversionV1
MergeOriginal(who) ==
  LET c == conversions[who]
      isRead == \/ c.at = "readOrigFile" /\ ORIGINALDDSFILE \in StreamFiles
                \/ c.at = "readOrigMember" /\ OrigMember \in Members
  IN  /\ c.at \in {"readOrigFile", "readOrigMember"}
      /\ conversions' =
           [conversions EXCEPT ![who].at = IF isRead THEN "merge"
                                           ELSE "rejected"]
      /\ UNCHANGED <<isDdsFile, outFileName, unchangedByConvert>>

\* main of jsonToDds: the output is written, to a temporary file and the
\* member or to the path, and its name returned
WriteDds(who) ==
  LET c == conversions[who]
      outputFile == IF isDdsFile[c.args.tool]
                    THEN DirT \o <<"/">> \o PathName(c.args.first) \o DSPFEXT
                    ELSE c.srcFile
  IN  /\ c.at = "merge"
      /\ conversions' =
           [conversions EXCEPT ![who] =
              [c EXCEPT !.wroteAs = Branch(c.args.tool),
                        !.wrote = outputFile, !.result = outputFile,
                        !.at = "done"]]
      /\ UNCHANGED <<isDdsFile, outFileName, unchangedByConvert>>

\* the continuation of a suspended call
Resume(who) ==
  \/ ValidateInput(who)
  \/ NameOutput(who)
  \/ ReadSource(who)
  \/ ExtractSource(who)
  \/ WriteJson(who)
  \/ ReturnJson(who)
  \/ ValidateOutput(who)
  \/ ReadOriginal(who)
  \/ MergeOriginal(who)
  \/ WriteDds(who)

\* calls made at any time: their continuations interleave in any order
NextConvert == \E who \in Callers : Begin(who) \/ Resume(who)

SpecConvert == InitConvert /\ [][NextConvert]_vars

\* no call is suspended
Quiet ==
  \A who \in Callers : conversions[who].at \in {"idle", "done", "rejected"}

\* calls made one after the other: a call is made when the calls before it
\* have settled
NextHistory == \E who \in Callers : (Quiet /\ Begin(who)) \/ Resume(who)

SpecHistory == InitConvert /\ [][NextHistory]_vars

\* the output file name ddsToJson derives from the arguments of a call:
\* <member>.json for a name without directory part, <name>.json otherwise,
\* in the resolved output directory
OwnOutputName(args) ==
  PathFormat(PathResolve(args.first),
             (IF PathDir(args.srcFile) = <<>> THEN ToUpperCase(args.srcMbr)
              ELSE PathName(args.srcFile)) \o JSONEXT)

\* C29 -- Concurrent conversions do not cross outputs: whatever the order in
\* which the awaits of two ddsToJson convert() calls interleave, the file a
\* call writes its structured document to, and the name it returns, are the
\* output file name derived from its own arguments.
OutputsNotCrossed ==
  \A who \in DOMAIN conversions :
    conversions[who].args.tool = "ddsToJson" =>
      /\ conversions[who].wrote
           \in {UNDEFINED, OwnOutputName(conversions[who].args)}
      /\ conversions[who].result
           \in {UNDEFINED, OwnOutputName(conversions[who].args)}

\* the arguments name a path-based file
IsPathBased(args) == PathDir(args.srcFile) # <<>>

\* C30 -- Calls are independent of history: after any sequence of earlier
\* convert() calls of the process, a call (of ddsToJson or of jsonToDds)
\* whose file name has a directory part is validated and processed as a
\* path-based file, never as a source-physical-file member.
PathBasedAfterHistory ==
  \A who \in DOMAIN conversions :
    IsPathBased(conversions[who].args) =>
      /\ conversions[who].validatedAs \in {"none", "path"}
      /\ conversions[who].readAs \in {"none", "path"}
      /\ conversions[who].wroteAs \in {"none", "path"}

====
